---- MODULE Spec2Model ----
(***************************************************************************)
(* Event capture, batching and delivery pipeline of the Echolog browser    *)
(* SDK: EventManager (queue, flush), EventSender (fetch with retry,        *)
(* beacon), OfflineManager (IndexedDB store) and the EchologClient glue    *)
(* (offline write on capture, replay on 'online').                         *)
(*                                                                         *)
(* One step of the model is one run-to-completion turn of the browser      *)
(* event loop: a public call, a timer or window event, the completion of   *)
(* a fetch, of a backoff delay or of a queued IndexedDB operation.         *)
(***************************************************************************)
EXTENDS Integers, Sequences, FiniteSets, TLC

\* ---------------------------------------------------------------- bounds
MaxEvents == 4      \* ids generateUniqueId hands out in one run
MaxBatch == 3       \* largest configured maxBatchSize
MaxFailures == 5    \* transport failures are modelled while retryCount is below this
MaxPosts == 2       \* the POST counter saturates here
MaxDbOps == 1       \* IndexedDB operations waiting at one time
MaxOffline == 2     \* largest configured maxOfflineEvents
RateScale == 2      \* sampleRate and Math.random() are counted in steps of 1/RateScale
MaxCrumbs == 2      \* largest configured maxBreadcrumbs
MaxDepth == 2       \* deepest nesting of a JSON value

\* ----------------------------------------------------- program constants
DefaultRetryAttempts == 3

\* the empty id '' / null that a suppressed capture returns
NullId == 0

VARIABLES
    eventQueue,     \* EventManager.eventQueue
    isFlushing,     \* EventManager.isFlushing
    isSendingLogs,  \* EventSender.isSendingLogs
    retryCount,     \* EventSender.retryCount
    inflight,       \* pending sendEvents promises: <<[batch, body, key, pc, attempts]>>
    nextId,         \* next id of generateUniqueId
    maxBatchSize,   \* options.maxBatchSize
    online,         \* navigator.onLine
    store,          \* IndexedDB object store OfflineEvents: id -> record
    dbOps,          \* IndexedDB operations issued and not yet run, in order
    maxOfflineEvents, \* options.maxOfflineEvents
    ret,            \* what the last capture call returned: [id, why]
    postCount,      \* HTTP POSTs issued by fetch so far (saturating)
    lastBeacon,     \* the last batch flush(true) handed to sendEventsSync
    enqSince,       \* events enqueued since the last flush snapshot
    storeOutcome,   \* how the last storeEvent transaction ended
    beforeSend,     \* options.beforeSend: what the configured hook does
    sampleRate,     \* options.sampleRate, in steps of 1/RateScale
    consoleCaptured, \* the console methods are wrapped by ConsoleCapture
    transactions,   \* TransactionManager.transactions: trace id -> transaction
    sessionId,      \* SessionManager.sessionId
    breadcrumbs,    \* BreadcrumbManager.breadcrumbs
    maxBreadcrumbs, \* options.maxBreadcrumbs
    retryAttempts,  \* options.retryAttempts as supplied: <<>> or <<n>>
    doc,            \* a JSON value handed to transformJsonForServer
    wire,           \* what transformJsonForServer returned for doc
    replaySend,     \* the sendReplays call tree: [pc, sending, calls]
    destroyed,      \* destroy() has run: the flush interval is cleared
    scn             \* progress of the scripted end-to-end scenario

vars == <<eventQueue, isFlushing, isSendingLogs, retryCount, inflight, nextId,
          maxBatchSize, online, store, dbOps, maxOfflineEvents, ret, postCount,
          lastBeacon, enqSince, storeOutcome, beforeSend, sampleRate,
          consoleCaptured, transactions, sessionId, breadcrumbs,
          maxBreadcrumbs, destroyed, retryAttempts, doc, wire, replaySend, scn>>

\* ---------------------------------------------------------------- helpers
Min(S) == CHOOSE x \in S : \A y \in S : x <= y

Ids(batch) == {batch[i].id : i \in 1..Len(batch)}

NoBeacon == [result |-> "none", batch |-> <<>>]

\* What a capture call returned (id) and, for the model's reader, why.
Ret(id, why) == [id |-> id, why |-> why]

\* the values undefined and null of a field that otherwise holds a string
Undefined == "undefined"

Null == "null"

\* this.client['serviceName'], which the constructor requires
ServiceName == "svc"

\* The session object of an event, { id, started_at, duration }: the start
\* time is left out and the duration is undefined or "elapsed". The id NullId
\* stands for the value null, an event outside every session.
Session(id, duration) == [id |-> id, duration |-> duration]

NoSession == Session(NullId, Undefined)

\* An event with every field given, as captureMessage, captureException and
\* the constructor build it. Of the schema the model carries id, message,
\* service_name (a field with a default) and console (a field that is null
\* when absent).
Event(id, message) ==
    [id |-> id, message |-> message, service_name |-> ServiceName,
     console |-> Null, session |-> NoSession]

\* event.k of a partial event: undefined when the key is absent
Field(partial, k) == IF k \in DOMAIN partial THEN partial[k] ELSE Undefined

\* a || b on string-valued fields
OrElse(a, b) == IF a \in {Undefined, Null, ""} THEN b ELSE a

\* 'spans' in event && 'name' in event && 'start_timestamp' in event
isTransaction(partial) == {"spans", "name", "start_timestamp"} \subseteq DOMAIN partial

\* new Date().toISOString()
Now == "now"

\* event.session || (the session manager's session, or null): sid is
\* sessionManager.getSessionId()
sessionOr(partial, sid) ==
    IF "session" \in DOMAIN partial /\ partial.session.id # NullId
    THEN partial.session
    ELSE Session(sid, Undefined)

\* variant: console copied from the input without the || null
Normalize_raw(partial, id, sid) ==
    IF isTransaction(partial)
    THEN [id |-> id,
          service_name |-> OrElse(Field(partial, "service_name"), ServiceName),
          message |-> OrElse(Field(partial, "message"), "Transaction"),
          name |-> partial.name,
          start_timestamp |-> OrElse(partial.start_timestamp, Now),
          end_timestamp |-> OrElse(Field(partial, "end_timestamp"), Undefined),
          spans |-> partial.spans,
          op |-> OrElse(Field(partial, "op"), "transaction"),
          console |-> Field(partial, "console"),
          session |-> sessionOr(partial, sid)]
    ELSE [id |-> id,
          service_name |-> OrElse(Field(partial, "service_name"), ServiceName),
          message |-> OrElse(Field(partial, "message"), ""),
          console |-> Field(partial, "console"),
          session |-> sessionOr(partial, sid)]

\* The object literal captureEvent builds from a partial event.
Normalize(partial, id, sid) ==
    IF isTransaction(partial)
    THEN [id |-> id,
          service_name |-> OrElse(Field(partial, "service_name"), ServiceName),
          message |-> OrElse(Field(partial, "message"), "Transaction"),
          name |-> partial.name,
          start_timestamp |-> OrElse(partial.start_timestamp, Now),
          end_timestamp |-> OrElse(Field(partial, "end_timestamp"), Undefined),
          spans |-> partial.spans,
          op |-> OrElse(Field(partial, "op"), "transaction"),
          console |-> OrElse(Field(partial, "console"), Null),
          session |-> sessionOr(partial, sid)]
    ELSE [id |-> id,
          service_name |-> OrElse(Field(partial, "service_name"), ServiceName),
          message |-> OrElse(Field(partial, "message"), ""),
          console |-> OrElse(Field(partial, "console"), Null),
          session |-> sessionOr(partial, sid)]

\* variant: the hook's return replaces the event, only the id is kept
Assign_replace(target, source) ==
    [k \in DOMAIN source \cup {"id"} |->
        IF k \in DOMAIN source THEN source[k] ELSE target[k]]

\* Object.assign(target, source)
Assign(target, source) ==
    [k \in DOMAIN target \cup DOMAIN source |->
        IF k \in DOMAIN source THEN source[k] ELSE target[k]]

\* What the configured beforeSend hook returns for an event: "partial" is a
\* hook that returns an object holding a message only.
HookReturn(hook, event) == IF hook = "partial" THEN [message |-> "H"] ELSE event

Hooks == {"none", "falsy", "partial", "throws"}

\* sampleRate 1, the default of the client
FullRate == RateScale

\* sampleRate: undefined
NoRate == 0 - 1

Rates == {NoRate} \cup (0..RateScale)

\* The values Math.random() returns, all below 1. With sampleRate undefined
\* or 1 no value is greater than the rate, and one value stands for all.
Draws == IF sampleRate \in {NoRate, FullRate} THEN {0} ELSE 0..(RateScale - 1)

EmptyStore == [k \in {} |-> ""]

\* "[Echolog Debug] ..." strings: message.includes("[Echolog Debug]") is true
DebugMessages == {"[Echolog Debug] Flush skipped"}

HasDebugMarker(message) == message \in DebugMessages

\* ------------------------------------------------ the manager as a record
\* The fields of EventManager, EventSender, TransactionManager and
\* SessionManager that a synchronous call reads and writes.
Mgr ==
    [queue |-> eventQueue, flushing |-> isFlushing, sending |-> isSendingLogs,
     inflight |-> inflight, nextId |-> nextId, ret |-> ret,
     postCount |-> postCount, lastBeacon |-> lastBeacon, enqSince |-> enqSince,
     transactions |-> transactions, sessionId |-> sessionId,
     random |-> 0]

\* the manager in a call during which Math.random() returns draw
WithDraw(m, draw) == [m EXCEPT !.random = draw]

SetMgr(m) ==
    /\ eventQueue' = m.queue
    /\ isFlushing' = m.flushing
    /\ isSendingLogs' = m.sending
    /\ inflight' = m.inflight
    /\ nextId' = m.nextId
    /\ ret' = m.ret
    /\ postCount' = m.postCount
    /\ lastBeacon' = m.lastBeacon
    /\ enqSince' = m.enqSince
    /\ transactions' = m.transactions
    /\ sessionId' = m.sessionId

\* ------------------------------------------------------------ EventSender
\* variant: a guard that never reports a send
isSendingLogsActive_never(m) == FALSE

isSendingLogsActive(m) == m.sending

WireKey(k) == IF k = "user" THEN "user_data" ELSE k

\* a field whose value is undefined (id, spans and session never are)
IsUndefined(e, k) == k \notin {"id", "spans", "session"} /\ e[k] = Undefined

\* transformJsonForServer on a span, an object nested in an event
transformSpan(span) ==
    [k \in {x \in DOMAIN span : x = "span_id" \/ span[x] # Undefined} |-> span[k]]

\* the value the wire form holds for the field k of an event: the function
\* is applied again to the elements of an array
WireValue(e, k) ==
    IF k = "spans" THEN [i \in DOMAIN e.spans |-> transformSpan(e.spans[i])]
    ELSE e[k]

\* The wire form of an event: keys named user become user_data and fields
\* whose value is undefined are left out.
transformJsonForServer(e) ==
    [k \in {WireKey(x) : x \in {y \in DOMAIN e : ~IsUndefined(e, y)}} |->
        WireValue(e, IF k = "user_data" /\ "user" \in DOMAIN e THEN "user" ELSE k)]

\* JSON values as transformJsonForServer sees them: [t, v] with t the typeof
\* class and v the string, the elements of an array, or the entries of an
\* object in key order, each <<key, value>>.
Json(t, v) == [t |-> t, v |-> v]

NoJson == Json("none", "")

HasKey(entries, key) == \E j \in DOMAIN entries : entries[j][1] = key

\* result[key] = value on the entries of an object: an existing key keeps
\* its place and takes the new value
Put(result, key, value) ==
    IF HasKey(result, key)
    THEN [j \in DOMAIN result |->
             IF result[j][1] = key THEN <<key, value>> ELSE result[j]]
    ELSE Append(result, <<key, value>>)

RECURSIVE transformJson(_)
RECURSIVE transformEntries(_, _, _)

\* variant: a string-valued level is kept in every object
transformEntries_keepLevel(entries, result, hasId) ==
    IF entries = <<>> THEN result
    ELSE LET key == Head(entries)[1]
             value == Head(entries)[2]
             fixedKey == WireKey(key)
         IN  transformEntries(
                 Tail(entries),
                 IF key = "level" /\ value.t = "string"
                 THEN Put(result, fixedKey, value)
                 ELSE IF value.t # "undefined"
                 THEN Put(result, fixedKey, transformJson(value))
                 ELSE result,
                 hasId)

\* the loop over Object.entries(obj); hasId is Object.keys(obj).includes("id")
transformEntries(entries, result, hasId) ==
    IF entries = <<>> THEN result
    ELSE LET key == Head(entries)[1]
             value == Head(entries)[2]
             fixedKey == WireKey(key)
         IN  transformEntries(
                 Tail(entries),
                 IF key = "level" /\ value.t = "string" /\ hasId
                 THEN Put(result, fixedKey, value)
                 ELSE IF key = "level" /\ value.t = "string"
                 THEN result
                 ELSE IF value.t # "undefined"
                 THEN Put(result, fixedKey, transformJson(value))
                 ELSE result,
                 hasId)

\* transformJsonForServer on any JSON value
transformJson(obj) ==
    IF obj.t \in {"undefined", "null"} THEN obj
    ELSE IF obj.t = "array"
    THEN Json("array", [i \in DOMAIN obj.v |-> transformJson(obj.v[i])])
    ELSE IF obj.t = "object"
    THEN Json("object", transformEntries(obj.v, <<>>, HasKey(obj.v, "id")))
    ELSE obj

WireBody(events) == [i \in 1..Len(events) |-> transformJsonForServer(events[i])]

\* sendEvents up to its first await: the flag is raised and fetch is called.
\* variant: the API key sent in the URL, as the beacon path does
sendEvents_keyInUrl(m, events, attempts) ==
    IF events = <<>> THEN m
    ELSE [m EXCEPT
            !.sending = TRUE,
            !.inflight = Append(@, [batch |-> events, body |-> WireBody(events),
                                    key |-> "query", pc |-> "fetching",
                                    attempts |-> attempts]),
            !.postCount = IF @ < MaxPosts THEN @ + 1 ELSE @]

sendEvents(m, events, attempts) ==
    IF events = <<>> THEN m
    ELSE [m EXCEPT
            !.sending = TRUE,
            !.inflight = Append(@, [batch |-> events, body |-> WireBody(events),
                                    key |-> "header", pc |-> "fetching",
                                    attempts |-> attempts]),
            !.postCount = IF @ < MaxPosts THEN @ + 1 ELSE @]

\* beacon is what navigator.sendBeacon does: "queued" (it returns true),
\* "refused" (it returns false) or "missing" (there is no sendBeacon).
sendEventsSync(m, events, beacon) ==
    IF events = <<>> THEN m
    ELSE [m EXCEPT !.lastBeacon = [result |-> beacon, batch |-> events]]

\* the request navigator.sendBeacon got: the API key travels in the URL
BeaconBody(b) == IF b.result \in {"queued", "refused"} THEN WireBody(b.batch) ELSE <<>>

BeaconKey(b) == IF b.result \in {"queued", "refused"} THEN "query" ELSE "none"

\* this.options.retryAttempts ?? 3, where the options of the sender are the
\* ones the client built for it: { ...options, retryAttempts: 3 }
maxRetryAttempts == DefaultRetryAttempts

RemoveAt(seq, i) == [j \in 1..(Len(seq) - 1) |-> IF j < i THEN seq[j] ELSE seq[j + 1]]

\* variant: a retry that takes a new snapshot of the queue
retrySend_resnapshot(m, i) ==
    LET f == m.inflight[i]
        inner == sendEvents([m EXCEPT !.inflight = RemoveAt(@, i), !.queue = <<>>],
                            f.batch \o m.queue, f.attempts + 1)
    IN  [inner EXCEPT !.sending = FALSE]

\* The catch block after the backoff delay: `return this.sendEvents(events)`
\* runs the inner call to its first await (flag raised, fetch issued), and the
\* outer call's finally block then clears the flag.
retrySend(m, i) ==
    LET f == m.inflight[i]
        inner == sendEvents([m EXCEPT !.inflight = RemoveAt(@, i)],
                            f.batch, f.attempts + 1)
    IN  [inner EXCEPT !.sending = FALSE]

\* ----------------------------------------------------------- EventManager
\* variant: the failed batch goes behind the newer events
requeue_behind(eventsToSend, queue) == queue \o eventsToSend

\* variant: the failed batch is discarded
requeue_discard(eventsToSend, queue) == queue

\* the catch handler of flush: the batch goes back in front of the queue
requeue(eventsToSend, queue) == eventsToSend \o queue

\* variant: flush without the isFlushing check
flush_unguarded(m, sync, beacon) ==
    IF m.queue = <<>> THEN m
    ELSE LET eventsToSend == m.queue
             m1 == [m EXCEPT !.flushing = TRUE, !.queue = <<>>, !.enqSince = <<>>]
         IN  IF sync
             THEN [sendEventsSync(m1, eventsToSend, beacon) EXCEPT
                     !.flushing = FALSE]
             ELSE sendEvents(m1, eventsToSend, 1)

\* variant: flush that leaves the events in the queue
flush_keep(m, sync, beacon) ==
    IF m.flushing \/ m.queue = <<>> THEN m
    ELSE LET eventsToSend == m.queue
             m1 == [m EXCEPT !.flushing = TRUE, !.enqSince = <<>>]
         IN  IF sync
             THEN [sendEventsSync(m1, eventsToSend, beacon) EXCEPT
                     !.flushing = FALSE]
             ELSE sendEvents(m1, eventsToSend, 1)

\* variant: a synchronous flush that puts the batch back when the beacon
\* transport does not take it
flush_requeueSync(m, sync, beacon) ==
    IF m.flushing \/ m.queue = <<>> THEN m
    ELSE LET eventsToSend == m.queue
             m1 == [m EXCEPT !.flushing = TRUE, !.queue = <<>>, !.enqSince = <<>>]
         IN  IF sync
             THEN [sendEventsSync(m1, eventsToSend, beacon) EXCEPT
                     !.flushing = FALSE,
                     !.queue = IF beacon = "queued" THEN @ ELSE eventsToSend]
             ELSE sendEvents(m1, eventsToSend, 1)

flush(m, sync, beacon) ==
    IF m.flushing \/ m.queue = <<>> THEN m
    ELSE LET eventsToSend == m.queue
             m1 == [m EXCEPT !.flushing = TRUE, !.queue = <<>>, !.enqSince = <<>>]
         IN  IF sync
             THEN [sendEventsSync(m1, eventsToSend, beacon) EXCEPT
                     !.flushing = FALSE]
             ELSE sendEvents(m1, eventsToSend, 1)

\* variant: the batch threshold compared with > instead of >=
captureEvent_strict(m, partial) ==
    IF isSendingLogsActive(m) THEN [m EXCEPT !.ret = Ret(NullId, "sending")]
    ELSE IF HasDebugMarker(Field(partial, "message"))
    THEN [m EXCEPT !.ret = Ret(NullId, "marker")]
    ELSE LET id == IF partial.id # NullId THEN partial.id ELSE m.nextId
             m0 == [m EXCEPT !.nextId = IF partial.id # NullId THEN @ ELSE @ + 1]
             completeEvent == Normalize(partial, id, m.sessionId)
             merged == IF beforeSend = "none" THEN completeEvent
                       ELSE Assign(completeEvent, HookReturn(beforeSend, completeEvent))
             m1 == [m0 EXCEPT
                      !.queue = Append(@, merged),
                      !.enqSince = IF m.flushing THEN Append(@, merged) ELSE @]
             m2 == IF maxBatchSize # 0 /\ Len(m1.queue) > maxBatchSize
                   THEN flush(m1, FALSE, "missing") ELSE m1
         IN  IF beforeSend = "throws" THEN [m0 EXCEPT !.ret = Ret(NullId, "threw")]
             ELSE IF beforeSend = "falsy" THEN [m0 EXCEPT !.ret = Ret(NullId, "hook")]
             ELSE IF sampleRate # NoRate /\ m.random > sampleRate
             THEN [m0 EXCEPT !.ret = Ret(NullId, "sampled")]
             ELSE [m2 EXCEPT !.ret = Ret(merged.id, "queued")]

\* captureEvent after the push: the batch threshold, and the id is returned
thresholdFlush(m, id) ==
    [(IF maxBatchSize # 0 /\ Len(m.queue) >= maxBatchSize
      THEN flush(m, FALSE, "missing") ELSE m) EXCEPT !.ret = Ret(id, "queued")]

\* variant: the event is queued but its id is not returned
push_unreported(m, event) ==
    thresholdFlush([m EXCEPT !.queue = Append(@, event),
                             !.enqSince = IF m.flushing THEN Append(@, event) ELSE @],
                   NullId)

\* this.eventQueue.push(completeEvent) and what follows it
push(m, event) ==
    thresholdFlush([m EXCEPT !.queue = Append(@, event),
                             !.enqSince = IF m.flushing THEN Append(@, event) ELSE @],
                   event.id)

\* captureEvent from the beforeSend hook on, for the normalized event
process(m, completeEvent) ==
    IF beforeSend = "throws" THEN [m EXCEPT !.ret = Ret(NullId, "threw")]
    ELSE IF beforeSend = "falsy" THEN [m EXCEPT !.ret = Ret(NullId, "hook")]
    ELSE IF sampleRate # NoRate /\ m.random > sampleRate
    THEN [m EXCEPT !.ret = Ret(NullId, "sampled")]
    ELSE push(m, IF beforeSend = "none" THEN completeEvent
                 ELSE Assign(completeEvent, HookReturn(beforeSend, completeEvent)))

\* captureEvent(partial): partial.id = NullId stands for an absent or empty id.
captureEvent(m, partial) ==
    IF isSendingLogsActive(m) THEN [m EXCEPT !.ret = Ret(NullId, "sending")]
    ELSE IF HasDebugMarker(Field(partial, "message"))
    THEN [m EXCEPT !.ret = Ret(NullId, "marker")]
    ELSE IF partial.id # NullId
    THEN process(m, Normalize(partial, partial.id, m.sessionId))
    ELSE process([m EXCEPT !.nextId = @ + 1],
                 Normalize(partial, m.nextId, m.sessionId))

captureMessage(m, message) ==
    IF isSendingLogsActive(m) THEN [m EXCEPT !.ret = Ret(NullId, "sending")]
    ELSE captureEvent([m EXCEPT !.nextId = @ + 1], Event(m.nextId, message))

\* sdkOrigin: the error's stack contains 'EchologClient'.
captureException(m, message, sdkOrigin) ==
    IF isSendingLogsActive(m) THEN [m EXCEPT !.ret = Ret(NullId, "sending")]
    ELSE IF sdkOrigin THEN [m EXCEPT !.ret = Ret(NullId, "sdk")]
    ELSE captureEvent([m EXCEPT !.nextId = @ + 1], Event(m.nextId, message))

\* --------------------------------------------------------- OfflineManager
\* The object store has keyPath 'id': a record is found under its id and a
\* cursor or getAll walks the records in key order.
StorePut(s, k, v) == [x \in DOMAIN s \cup {k} |-> IF x = k THEN v ELSE s[x]]

StoreDelete(s, k) == [x \in DOMAIN s \ {k} |-> s[x]]

\* The cursor callback of storeEvent, entered with the cursor at key pos:
\* cursor.delete(), then cursor.continue(), which calls it again at the next key.
RECURSIVE CursorWalk(_, _)
CursorWalk(s, pos) ==
    LET s1 == StoreDelete(s, pos)
        rest == {k \in DOMAIN s1 : k > pos}
    IN  IF rest = {} THEN s1 ELSE CursorWalk(s1, Min(rest))

\* variant: the count is not looked at, nothing is ever evicted
storeEvent_keepAll(s, id, record, maxEvents) ==
    IF id \in DOMAIN s THEN s ELSE StorePut(s, id, record)

\* variant: the record written with put, which replaces a present key
storeEvent_put(s, id, record, maxEvents) ==
    LET full == Cardinality(DOMAIN s) >= maxEvents
        first == IF DOMAIN s = {} THEN NullId ELSE Min(DOMAIN s)
    IN  IF id \in DOMAIN s THEN StorePut(s, id, record)
        ELSE IF full /\ DOMAIN s # {} THEN CursorWalk(StorePut(s, id, record), first)
        ELSE StorePut(s, id, record)

\* One storeEvent transaction. Its requests run in the order they are made:
\* count, openCursor (when the store is full), add, and then the requests the
\* cursor callback makes. add rejects a key that is present, which aborts the
\* transaction and undoes it.
storeEvent(s, id, record, maxEvents) ==
    LET full == Cardinality(DOMAIN s) >= maxEvents
        first == IF DOMAIN s = {} THEN NullId ELSE Min(DOMAIN s)
    IN  IF id \in DOMAIN s THEN s
        ELSE IF full /\ DOMAIN s # {} THEN CursorWalk(StorePut(s, id, record), first)
        ELSE StorePut(s, id, record)

storeEventOutcome(s, id) == IF id \in DOMAIN s THEN "rejected" ELSE "stored"

\* retrieveEvents: getAll() returns the records in key order.
RECURSIVE retrieveEvents(_)
retrieveEvents(s) ==
    IF DOMAIN s = {} THEN <<>>
    ELSE LET k == Min(DOMAIN s)
         IN  <<Event(k, s[k])>> \o retrieveEvents(StoreDelete(s, k))

clearStoredEvents(s) == EmptyStore


\* ---------------------------------------------------------- ConsoleCapture
\* A call that ended with an exception: the statements after the throwing one
\* did not run.
Threw(m) == m.ret.why = "threw"

\* what flush logs with console.error when the promise of sendEvents rejects
SendFailedMessage == "[Echolog] Failed to send events:"

\* console.error(message) called by the SDK: once setupConsoleCapture has
\* wrapped the console, the wrapper passes the message to captureEvent
consoleError(m, message) ==
    IF consoleCaptured
    THEN captureEvent([m EXCEPT !.nextId = @ + 1],
                      [id |-> m.nextId, service_name |-> ServiceName,
                       message |-> message])
    ELSE m

\* variant: the .finally handler that clears isFlushing is missing
settle_stuck(m, eventsToSend, returned) ==
    [(IF Threw(m) THEN m ELSE [m EXCEPT !.queue = requeue(eventsToSend, @)])
        EXCEPT !.enqSince = <<>>, !.ret = returned]

\* the rest of .catch and .finally, after the error was logged: no re-queue
\* when the logging call ended with an exception
settle(m, eventsToSend, returned) ==
    [(IF Threw(m) THEN m ELSE [m EXCEPT !.queue = requeue(eventsToSend, @)])
        EXCEPT !.flushing = FALSE, !.enqSince = <<>>, !.ret = returned]

\* The handlers flush attaches to the promise of sendEvents, run when the
\* promise of the send at inflight[i] rejects: .catch logs the error and puts
\* the batch back in front of the queue, .finally clears isFlushing.
sendRejected(m, i) ==
    settle(consoleError([m EXCEPT !.sending = FALSE, !.inflight = RemoveAt(@, i)],
                        SendFailedMessage),
           m.inflight[i].batch, m.ret)

\* ---------------------------------------------------------- SessionManager

\* variant: the event is captured first, without a session of its own, and
\* the session id is set after it
startSession_late(m) ==
    LET m0 == [m EXCEPT !.nextId = @ + 2]
        m1 == captureEvent(m0, [id |-> m.nextId + 1, service_name |-> ServiceName,
                                message |-> "Session started"])
    IN  IF Threw(m1) THEN m1
        ELSE [m1 EXCEPT !.sessionId = m.nextId, !.ret = Ret(NullId, "done")]

\* startSession(): the session id is set before the event is captured
startSession(m) ==
    LET m0 == [m EXCEPT !.sessionId = m.nextId, !.nextId = @ + 2]
        m1 == captureEvent(m0, [id |-> m.nextId + 1, service_name |-> ServiceName,
                                message |-> "Session started",
                                session |-> Session(m.nextId, Undefined)])
    IN  IF Threw(m1) THEN m1 ELSE [m1 EXCEPT !.ret = Ret(NullId, "done")]

\* variant: endSession without its check for an active session
endSession_unguarded(m, beacon) ==
    LET m0 == [m EXCEPT !.nextId = @ + 1]
        m1 == captureEvent(m0, [id |-> m.nextId, service_name |-> ServiceName,
                                message |-> "Session ended",
                                session |-> Session(m.sessionId, "elapsed")])
        m2 == flush([m1 EXCEPT !.sessionId = NullId], TRUE, beacon)
    IN  IF Threw(m1) THEN m1 ELSE [m2 EXCEPT !.ret = Ret(NullId, "done")]

\* endSession(): nothing without a session; else the event, the reset of the
\* session and flush(true)
endSession(m, beacon) ==
    IF m.sessionId = NullId THEN [m EXCEPT !.ret = Ret(NullId, "done")]
    ELSE LET m0 == [m EXCEPT !.nextId = @ + 1]
             m1 == captureEvent(m0, [id |-> m.nextId, service_name |-> ServiceName,
                                     message |-> "Session ended",
                                     session |-> Session(m.sessionId, "elapsed")])
             m2 == flush([m1 EXCEPT !.sessionId = NullId], TRUE, beacon)
         IN  IF Threw(m1) THEN m1 ELSE [m2 EXCEPT !.ret = Ret(NullId, "done")]

\* ------------------------------------------------------ TransactionManager
\* The sampleRate the TransactionManager is constructed with: 1.0 when the
\* option is undefined.
transactionSampleRate == IF sampleRate = NoRate THEN FullRate ELSE sampleRate

TransactionName == "page_load"

SpanDescription == "db"

\* the op option of startSpan: absent or given
SpanOps == {Undefined, "db.query"}

\* An event holds the spans array of its transaction, not a copy: what
\* startSpan and finishSpan do to the array shows in every event built from
\* the transaction and still held by the queue or by a batch.
ShareSpans(events, id, spans) ==
    [i \in 1..Len(events) |->
        IF "spans" \in DOMAIN events[i] /\ events[i].id = id
        THEN [events[i] EXCEPT !.spans = spans] ELSE events[i]]

\* transaction.spans = spans, seen through every reference to the array
SetSpans(m, traceId, spans) ==
    LET id == m.transactions[traceId].id
    IN  [m EXCEPT !.transactions[traceId].spans = spans,
                  !.queue = ShareSpans(@, id, spans),
                  !.enqSince = ShareSpans(@, id, spans),
                  !.lastBeacon.batch = ShareSpans(@, id, spans),
                  !.inflight = [i \in DOMAIN @ |->
                                   [@[i] EXCEPT !.batch = ShareSpans(@, id, spans)]]]

\* startTransaction(options): txDraw is what its own Math.random() returns
startTransaction(m, txDraw) ==
    IF txDraw > transactionSampleRate THEN [m EXCEPT !.ret = Ret(NullId, "sampled")]
    ELSE LET traceId == m.nextId
             transaction ==
                 [id |-> m.nextId + 1, trace_id |-> traceId, name |-> TransactionName,
                  op |-> "transaction", start_timestamp |-> Now,
                  service_name |-> ServiceName,
                  message |-> "Transaction: page_load", spans |-> <<>>,
                  console |-> Null, end_timestamp |-> Undefined]
             m0 == [m EXCEPT !.nextId = @ + 2,
                             !.transactions = StorePut(@, traceId, transaction)]
             m1 == captureEvent(m0, transaction)
         IN  IF Threw(m1) THEN m1 ELSE [m1 EXCEPT !.ret = Ret(traceId, "done")]

\* startSpan(transaction, options)
startSpan(m, traceId, op) ==
    LET transaction == m.transactions[traceId]
        span == [span_id |-> m.nextId, description |-> SpanDescription,
                 op |-> OrElse(op, "custom"), start_timestamp |-> Now,
                 end_timestamp |-> Undefined, duration_ms |-> Undefined]
        m0 == SetSpans([m EXCEPT !.nextId = @ + 1], traceId,
                       Append(transaction.spans, span))
        spanEvent == Assign(m0.transactions[traceId],
                            [span_id |-> span.span_id, message |-> "Span: db",
                             description |-> SpanDescription, op |-> op,
                             start_timestamp |-> span.start_timestamp])
        m1 == captureEvent(m0, spanEvent)
    IN  IF Threw(m1) THEN m1 ELSE [m1 EXCEPT !.ret = Ret(span.span_id, "done")]

\* variant: finishSpan without its check of span.end_timestamp
finishSpan_again(m, traceId, k) ==
    LET span == m.transactions[traceId].spans[k]
        m0 == SetSpans(m, traceId,
                       [m.transactions[traceId].spans EXCEPT
                           ![k].end_timestamp = Now, ![k].duration_ms = "elapsed"])
        spanEvent == Assign(m0.transactions[traceId],
                            [span_id |-> span.span_id, message |-> "Span finished: db",
                             description |-> span.description, op |-> span.op,
                             start_timestamp |-> span.start_timestamp,
                             end_timestamp |-> Now])
        m1 == captureEvent(m0, spanEvent)
    IN  IF Threw(m1) THEN m1 ELSE [m1 EXCEPT !.ret = Ret(NullId, "done")]

\* finishSpan(span) for the span at transaction.spans[k]; a span that has an
\* end_timestamp is left as it is
finishSpan(m, traceId, k) ==
    LET span == m.transactions[traceId].spans[k]
        m0 == SetSpans(m, traceId,
                       [m.transactions[traceId].spans EXCEPT
                           ![k].end_timestamp = Now, ![k].duration_ms = "elapsed"])
        spanEvent == Assign(m0.transactions[traceId],
                            [span_id |-> span.span_id, message |-> "Span finished: db",
                             description |-> span.description, op |-> span.op,
                             start_timestamp |-> span.start_timestamp,
                             end_timestamp |-> Now])
        m1 == captureEvent(m0, spanEvent)
    IN  IF span.end_timestamp # Undefined THEN [m EXCEPT !.ret = Ret(NullId, "finished")]
        ELSE IF Threw(m1) THEN m1 ELSE [m1 EXCEPT !.ret = Ret(NullId, "done")]

\* variant: the finished transaction stays in the map
finishTransaction_keep(m, traceId, slow) ==
    IF traceId \notin DOMAIN m.transactions THEN [m EXCEPT !.ret = Ret(NullId, "absent")]
    ELSE LET m0 == [m EXCEPT !.transactions[traceId].end_timestamp = Now,
                             !.transactions[traceId].message =
                                 IF slow THEN "Slow transaction: page_load" ELSE @]
             m1 == captureEvent(m0, m0.transactions[traceId])
         IN  IF Threw(m1) THEN m1 ELSE [m1 EXCEPT !.ret = Ret(NullId, "done")]

\* finishTransaction(traceId); slow: the transaction took more than 5 s
finishTransaction(m, traceId, slow) ==
    IF traceId \notin DOMAIN m.transactions THEN [m EXCEPT !.ret = Ret(NullId, "absent")]
    ELSE LET m0 == [m EXCEPT !.transactions[traceId].end_timestamp = Now,
                             !.transactions[traceId].message =
                                 IF slow THEN "Slow transaction: page_load" ELSE @]
             m1 == captureEvent(m0, m0.transactions[traceId])
         IN  IF Threw(m1) THEN m1
             ELSE [m1 EXCEPT !.transactions = StoreDelete(@, traceId),
                             !.ret = Ret(NullId, "done")]

\* ------------------------------------------------------- BreadcrumbManager
\* variant of add that makes room by dropping the entry it has just pushed
add_dropNewest(buffer, max, breadcrumb) ==
    IF Len(buffer) + 1 > max THEN buffer ELSE Append(buffer, breadcrumb)

\* BreadcrumbManager.add: push, then shift once when the buffer is over its cap
add(buffer, max, breadcrumb) ==
    IF Len(buffer) + 1 > max
    THEN Tail(Append(buffer, breadcrumb))
    ELSE Append(buffer, breadcrumb)

\* the breadcrumb add() builds: a generated id and the caller's message
Breadcrumb(id, message) == [id |-> id, message |-> message]

\* ------------------------------------------------------------ the client
DbOp(op, id, message) == [op |-> op, id |-> id, message |-> message]

\* variant: each captureEvent of the loop in a try / catch of its own
RECURSIVE resubmit_each(_, _)
resubmit_each(m, events) ==
    IF events = <<>> THEN m
    ELSE resubmit_each([captureEvent(m, Head(events)) EXCEPT
                           !.ret = IF @.why = "threw" THEN m.ret ELSE @],
                       Tail(events))

\* the loop of retryOfflineEvents: captureEvent for each stored record
RECURSIVE resubmit(_, _)
resubmit(m, events) ==
    IF events = <<>> \/ m.ret.why = "threw" THEN m
    ELSE resubmit(captureEvent(m, Head(events)), Tail(events))

\* fresh ids the replay of these records draws (a record keyed '' gets one)
FreshNeeded(events) == Cardinality({i \in 1..Len(events) : events[i].id = NullId})

CaptureMessages == {"A", "B"}

ExceptionMessage == "A"

ProducerMessages == {"B"} \cup DebugMessages

BatchSizes == 2..MaxBatch

OfflineSizes == 1..MaxOffline

Script(s, call) ==
    IF s = "init" /\ call = "A" THEN "A"
    ELSE IF s = "A" /\ call = "B" THEN "AB"
    ELSE "off"

\* ------------------------------------------------------------------ Init
\* the manager the constructor makes, before its first capture
NewMgr(draw) ==
    [queue |-> <<>>, flushing |-> FALSE, sending |-> FALSE, inflight |-> <<>>,
     nextId |-> 2, ret |-> Ret(NullId, "none"), postCount |-> 0,
     lastBeacon |-> NoBeacon, enqSince |-> <<>>,
     transactions |-> EmptyStore, sessionId |-> NullId, random |-> draw]

\* The state the constructor leaves for options drawn from the given sets:
\* its last statement captures the 'App opened' event, inside try / catch.
ConfiguredFor(hooks, rates, consoles, crumbs, retries) ==
    /\ maxBatchSize \in BatchSizes
    /\ retryAttempts \in retries
    /\ doc = NoJson
    /\ wire = NoJson
    /\ replaySend = [pc |-> "idle", sending |-> FALSE, calls |-> 0]
    /\ maxBreadcrumbs \in crumbs
    /\ breadcrumbs = <<>>
    /\ destroyed = FALSE
    /\ maxOfflineEvents \in OfflineSizes
    /\ beforeSend \in hooks
    /\ sampleRate \in rates
    /\ consoleCaptured \in consoles
    /\ \E draw \in Draws :
          eventQueue = captureEvent(NewMgr(draw), Event(1, "App opened")).queue
    /\ isFlushing = FALSE
    /\ isSendingLogs = FALSE
    /\ retryCount = 0
    /\ inflight = <<>>
    /\ nextId = 2
    /\ online = TRUE
    /\ store = EmptyStore
    /\ dbOps = <<>>
    /\ ret = Ret(NullId, "none")
    /\ postCount = 0
    /\ lastBeacon = NoBeacon
    /\ enqSince = <<>>
    /\ storeOutcome = "none"
    /\ transactions = EmptyStore
    /\ sessionId = NullId
    /\ scn = "init"

\* the client constructed without a retryAttempts option
ConfiguredWith(hooks, rates, consoles, crumbs) ==
    ConfiguredFor(hooks, rates, consoles, crumbs, {<<>>})

Configured(hooks, rates, consoles) ==
    ConfiguredWith(hooks, rates, consoles, {MaxCrumbs})

\* The client with its default options: no beforeSend hook, sampleRate 1, and
\* the console left as it is (this client never calls setupConsoleCapture).
Init == Configured({"none"}, {FullRate}, {FALSE})

\* --------------------------------------------------------------- actions
\* the catch block of the client's captureMessage and captureException:
\* the error is logged and a new id is returned
caught(m) == [m EXCEPT !.ret = Ret(m.nextId, "caught"), !.nextId = @ + 1]

\* The end of the client's captureMessage and captureException: the catch
\* block when the manager threw, else the offline write when the browser is
\* offline; record is the message the offline record carries.
Returned(m, record) ==
    IF Threw(m)
    THEN SetMgr(caught(m)) /\ dbOps' = dbOps
    ELSE /\ SetMgr(m)
         /\ dbOps' = IF ~online
                     THEN Append(dbOps, DbOp("store", m.ret.id, record))
                     ELSE dbOps

\* EchologClient.captureMessage
ClientCaptureMessage(message) ==
    /\ nextId <= MaxEvents
    /\ ~online => Len(dbOps) < MaxDbOps
    /\ \E draw \in Draws :
          Returned(captureMessage(WithDraw(Mgr, draw), message), message)
    /\ scn' = Script(scn, message)
    /\ UNCHANGED <<retryCount, maxBatchSize, online, store, maxOfflineEvents,
                   storeOutcome,
                   beforeSend, sampleRate, consoleCaptured,
                   breadcrumbs, maxBreadcrumbs, destroyed, retryAttempts, doc, wire, replaySend>>

\* EchologClient.captureException; the offline record carries no message
ClientCaptureException(sdkOrigin) ==
    /\ nextId <= MaxEvents
    /\ ~online => Len(dbOps) < MaxDbOps
    /\ \E draw \in Draws :
          Returned(captureException(WithDraw(Mgr, draw), ExceptionMessage, sdkOrigin),
                   "")
    /\ scn' = "off"
    /\ UNCHANGED <<retryCount, maxBatchSize, online, store, maxOfflineEvents,
                   storeOutcome,
                   beforeSend, sampleRate, consoleCaptured,
                   breadcrumbs, maxBreadcrumbs, destroyed, retryAttempts, doc, wire, replaySend>>

\* a producer (console, network, error listener) calling captureEvent
ProducerCapture(message) ==
    /\ nextId <= MaxEvents
    /\ \E draw \in Draws :
          SetMgr(captureEvent(WithDraw(Mgr, draw), [id |-> NullId, message |-> message]))
    /\ scn' = "off"
    /\ UNCHANGED <<retryCount, maxBatchSize, online, store, dbOps,
                   maxOfflineEvents, storeOutcome,
                   beforeSend, sampleRate, consoleCaptured,
                   breadcrumbs, maxBreadcrumbs, destroyed, retryAttempts, doc, wire, replaySend>>

\* partial events a producer may pass to captureEvent, without an id
PlainPartials ==
    {[id |-> NullId],
     [id |-> NullId, message |-> "A", console |-> Undefined],
     [id |-> NullId, message |-> Null, service_name |-> "", console |-> "log"]}

TransactionPartials ==
    {[id |-> NullId, name |-> "page_load", spans |-> <<>>, start_timestamp |-> Now,
      end_timestamp |-> Undefined],
     [id |-> NullId, name |-> "page_load", spans |-> <<>>, start_timestamp |-> Now,
      end_timestamp |-> Now, op |-> "navigation"],
     [id |-> NullId, name |-> Undefined, spans |-> <<>>, start_timestamp |-> "",
      end_timestamp |-> Now]}

Partials == PlainPartials \cup TransactionPartials

\* a producer calling captureEvent with a partial event
CaptureEventCall(partial) ==
    /\ nextId <= MaxEvents
    /\ \E draw \in Draws : SetMgr(captureEvent(WithDraw(Mgr, draw), partial))
    /\ scn' = "off"
    /\ UNCHANGED <<retryCount, maxBatchSize, online, store, dbOps,
                   maxOfflineEvents, storeOutcome,
                   beforeSend, sampleRate, consoleCaptured,
                   breadcrumbs, maxBreadcrumbs, destroyed, retryAttempts, doc, wire, replaySend>>


\* EchologClient.startSession
StartSession ==
    /\ nextId + 1 <= MaxEvents
    /\ \E draw \in Draws : SetMgr(startSession(WithDraw(Mgr, draw)))
    /\ scn' = "off"
    /\ UNCHANGED <<retryCount, maxBatchSize, online, store, dbOps,
                   maxOfflineEvents, storeOutcome,
                   beforeSend, sampleRate, consoleCaptured,
                   breadcrumbs, maxBreadcrumbs, destroyed, retryAttempts, doc, wire, replaySend>>

\* EchologClient.endSession
EndSession(beacon) ==
    /\ nextId <= MaxEvents
    /\ \E draw \in Draws : SetMgr(endSession(WithDraw(Mgr, draw), beacon))
    /\ scn' = "off"
    /\ UNCHANGED <<retryCount, maxBatchSize, online, store, dbOps,
                   maxOfflineEvents, storeOutcome,
                   beforeSend, sampleRate, consoleCaptured,
                   breadcrumbs, maxBreadcrumbs, destroyed, retryAttempts, doc, wire, replaySend>>

\* EchologClient.startTransaction
StartTransaction ==
    /\ nextId + 1 <= MaxEvents
    /\ \E draw \in Draws, txDraw \in Draws :
          SetMgr(startTransaction(WithDraw(Mgr, draw), txDraw))
    /\ scn' = "off"
    /\ UNCHANGED <<retryCount, maxBatchSize, online, store, dbOps,
                   maxOfflineEvents, storeOutcome,
                   beforeSend, sampleRate, consoleCaptured,
                   breadcrumbs, maxBreadcrumbs, destroyed, retryAttempts, doc, wire, replaySend>>

\* EchologClient.startSpan: null for an unknown trace id
StartSpan(traceId, op) ==
    /\ nextId <= MaxEvents
    /\ \E draw \in Draws :
          SetMgr(IF traceId \notin DOMAIN transactions
                 THEN [Mgr EXCEPT !.ret = Ret(NullId, "done")]
                 ELSE startSpan(WithDraw(Mgr, draw), traceId, op))
    /\ scn' = "off"
    /\ UNCHANGED <<retryCount, maxBatchSize, online, store, dbOps,
                   maxOfflineEvents, storeOutcome,
                   beforeSend, sampleRate, consoleCaptured,
                   breadcrumbs, maxBreadcrumbs, destroyed, retryAttempts, doc, wire, replaySend>>

\* EchologClient.finishSpan: nothing for an unknown trace id or span id
FinishSpan(traceId, spanId) ==
    /\ \E draw \in Draws :
          SetMgr(IF traceId \notin DOMAIN transactions
                 THEN [Mgr EXCEPT !.ret = Ret(NullId, "done")]
                 ELSE LET spans == transactions[traceId].spans
                          found == {k \in DOMAIN spans : spans[k].span_id = spanId}
                      IN  IF found = {} THEN [Mgr EXCEPT !.ret = Ret(NullId, "done")]
                          ELSE finishSpan(WithDraw(Mgr, draw), traceId, Min(found)))
    /\ scn' = "off"
    /\ UNCHANGED <<retryCount, maxBatchSize, online, store, dbOps,
                   maxOfflineEvents, storeOutcome,
                   beforeSend, sampleRate, consoleCaptured,
                   breadcrumbs, maxBreadcrumbs, destroyed, retryAttempts, doc, wire, replaySend>>

\* EchologClient.finishTransaction
FinishTransaction(traceId, slow) ==
    /\ \E draw \in Draws : SetMgr(finishTransaction(WithDraw(Mgr, draw), traceId, slow))
    /\ scn' = "off"
    /\ UNCHANGED <<retryCount, maxBatchSize, online, store, dbOps,
                   maxOfflineEvents, storeOutcome,
                   beforeSend, sampleRate, consoleCaptured,
                   breadcrumbs, maxBreadcrumbs, destroyed, retryAttempts, doc, wire, replaySend>>

\* variant: the interval is never cleared
TimerFlush_uncancelled ==
    /\ SetMgr(flush(Mgr, FALSE, "missing"))
    /\ scn' = "off"
    /\ UNCHANGED <<retryCount, maxBatchSize, online, store, dbOps,
                   maxOfflineEvents, storeOutcome,
                   beforeSend, sampleRate, consoleCaptured,
                   breadcrumbs, maxBreadcrumbs, destroyed, retryAttempts, doc, wire, replaySend>>

\* the setInterval callback, until EventManager.destroy clears the interval
TimerFlush ==
    /\ ~destroyed
    /\ SetMgr(flush(Mgr, FALSE, "missing"))
    /\ scn' = "off"
    /\ UNCHANGED <<retryCount, maxBatchSize, online, store, dbOps,
                   maxOfflineEvents, storeOutcome,
                   beforeSend, sampleRate, consoleCaptured,
                   breadcrumbs, maxBreadcrumbs, destroyed, retryAttempts, doc, wire, replaySend>>

\* EchologClient.flush(sync), also the beforeunload listener (sync = true).
\* The manager's flush returns nothing, so the await in the client ends with
\* the microtask after the call: the promise resolves within this step.
ClientFlush(sync, beacon) ==
    /\ SetMgr(flush(Mgr, sync, beacon))
    /\ scn' = "off"
    /\ UNCHANGED <<retryCount, maxBatchSize, online, store, dbOps,
                   maxOfflineEvents, storeOutcome,
                   beforeSend, sampleRate, consoleCaptured,
                   breadcrumbs, maxBreadcrumbs, destroyed, retryAttempts, doc, wire, replaySend>>

\* fetch resolves with response.ok for the send at inflight[i]
FetchSuccess(i) ==
    /\ i \in DOMAIN inflight
    /\ inflight[i].pc = "fetching"
    /\ retryCount' = 0
    /\ isSendingLogs' = FALSE
    /\ inflight' = RemoveAt(inflight, i)
    /\ isFlushing' = FALSE
    /\ enqSince' = <<>>
    /\ scn' = "off"
    /\ UNCHANGED <<eventQueue, nextId, maxBatchSize, online, store, dbOps,
                   maxOfflineEvents, ret, postCount, lastBeacon,
                   storeOutcome,
                   beforeSend, sampleRate, consoleCaptured, transactions, sessionId,
                   breadcrumbs, maxBreadcrumbs, destroyed, retryAttempts, doc, wire, replaySend>>

\* fetch rejects or resolves with a non-ok status for the send at inflight[i]
FetchFail(i) ==
    /\ i \in DOMAIN inflight
    /\ inflight[i].pc = "fetching"
    /\ retryCount < MaxFailures
    /\ consoleCaptured => nextId <= MaxEvents
    /\ retryCount' = retryCount + 1
    /\ IF retryCount + 1 <= maxRetryAttempts
       THEN SetMgr([Mgr EXCEPT !.inflight[i].pc = "backoff"])
       ELSE \E draw \in Draws : SetMgr(sendRejected(WithDraw(Mgr, draw), i))
    /\ scn' = "off"
    /\ UNCHANGED <<maxBatchSize, online, store, dbOps, maxOfflineEvents,
                   storeOutcome, beforeSend, sampleRate, consoleCaptured,
                   breadcrumbs, maxBreadcrumbs, destroyed, retryAttempts, doc, wire, replaySend>>

\* the backoff timer of the send at inflight[i] fires
BackoffDone(i) ==
    /\ i \in DOMAIN inflight
    /\ inflight[i].pc = "backoff"
    /\ SetMgr(retrySend(Mgr, i))
    /\ scn' = "off"
    /\ UNCHANGED <<retryCount, maxBatchSize, online, store, dbOps,
                   maxOfflineEvents, storeOutcome,
                   beforeSend, sampleRate, consoleCaptured,
                   breadcrumbs, maxBreadcrumbs, destroyed, retryAttempts, doc, wire, replaySend>>

\* the browser loses the network
GoOffline ==
    /\ online
    /\ online' = FALSE
    /\ scn' = "off"
    /\ UNCHANGED <<eventQueue, isFlushing, isSendingLogs, retryCount, inflight,
                   nextId, maxBatchSize, store, dbOps, maxOfflineEvents, ret,
                   postCount, lastBeacon, enqSince,
                   storeOutcome,
                   beforeSend, sampleRate, consoleCaptured, transactions, sessionId,
                   breadcrumbs, maxBreadcrumbs, destroyed, retryAttempts, doc, wire, replaySend>>

\* the 'online' event: retryOfflineEvents starts with retrieveEvents()
GoOnline ==
    /\ ~online
    /\ Len(dbOps) < MaxDbOps
    /\ online' = TRUE
    /\ dbOps' = Append(dbOps, DbOp("retrieve", NullId, ""))
    /\ scn' = "off"
    /\ UNCHANGED <<eventQueue, isFlushing, isSendingLogs, retryCount, inflight,
                   nextId, maxBatchSize, store, maxOfflineEvents, ret,
                   postCount, lastBeacon, enqSince,
                   storeOutcome,
                   beforeSend, sampleRate, consoleCaptured, transactions, sessionId,
                   breadcrumbs, maxBreadcrumbs, destroyed, retryAttempts, doc, wire, replaySend>>

\* the storeEvent transaction at the head of the IndexedDB queue runs
DbStore ==
    /\ dbOps # <<>>
    /\ Head(dbOps).op = "store"
    /\ store' = storeEvent(store, Head(dbOps).id, Head(dbOps).message,
                           maxOfflineEvents)
    /\ storeOutcome' = storeEventOutcome(store, Head(dbOps).id)
    /\ dbOps' = Tail(dbOps)
    /\ scn' = "off"
    /\ UNCHANGED <<eventQueue, isFlushing, isSendingLogs, retryCount, inflight,
                   nextId, maxBatchSize, online, maxOfflineEvents, ret,
                   postCount, lastBeacon, enqSince,
                   beforeSend, sampleRate, consoleCaptured, transactions, sessionId,
                   breadcrumbs, maxBreadcrumbs, destroyed, retryAttempts, doc, wire, replaySend>>

\* retrieveEvents resolves: retryOfflineEvents re-submits every record and,
\* when there was one, calls clearStoredEvents()
DbRetrieve ==
    /\ dbOps # <<>>
    /\ Head(dbOps).op = "retrieve"
    /\ \E draw \in Draws :
          LET storedEvents == retrieveEvents(store)
              m == resubmit([WithDraw(Mgr, draw) EXCEPT !.ret = Ret(NullId, "none")],
                            storedEvents)
          IN  /\ nextId + FreshNeeded(storedEvents) <= MaxEvents + 1
              /\ SetMgr([m EXCEPT !.ret = ret])
              /\ dbOps' = IF Len(storedEvents) > 0 /\ m.ret.why # "threw"
                          THEN Append(Tail(dbOps), DbOp("clear", NullId, ""))
                          ELSE Tail(dbOps)
    /\ scn' = "off"
    /\ UNCHANGED <<retryCount, maxBatchSize, online, store, maxOfflineEvents,
                   storeOutcome,
                   beforeSend, sampleRate, consoleCaptured,
                   breadcrumbs, maxBreadcrumbs, destroyed, retryAttempts, doc, wire, replaySend>>

\* the clearStoredEvents transaction runs
DbClear ==
    /\ dbOps # <<>>
    /\ Head(dbOps).op = "clear"
    /\ store' = clearStoredEvents(store)
    /\ dbOps' = Tail(dbOps)
    /\ scn' = "off"
    /\ UNCHANGED <<eventQueue, isFlushing, isSendingLogs, retryCount, inflight,
                   nextId, maxBatchSize, online, maxOfflineEvents, ret,
                   postCount, lastBeacon, enqSince, storeOutcome,
                   beforeSend, sampleRate, consoleCaptured, transactions, sessionId,
                   breadcrumbs, maxBreadcrumbs, destroyed, retryAttempts, doc, wire, replaySend>>

\* OfflineManager.storeEvent called directly, its transaction run at once
StoreCall(id, message, maxEvents) ==
    /\ store' = storeEvent(store, id, message, maxEvents)
    /\ storeOutcome' = storeEventOutcome(store, id)
    /\ UNCHANGED <<eventQueue, isFlushing, isSendingLogs, retryCount, inflight,
                   nextId, maxBatchSize, online, dbOps, maxOfflineEvents, ret,
                   postCount, lastBeacon, enqSince, scn,
                   beforeSend, sampleRate, consoleCaptured, transactions, sessionId,
                   breadcrumbs, maxBreadcrumbs, destroyed, retryAttempts, doc, wire, replaySend>>

\* OfflineManager.clearStoredEvents called directly
ClearCall ==
    /\ store' = clearStoredEvents(store)
    /\ storeOutcome' = "none"
    /\ UNCHANGED <<eventQueue, isFlushing, isSendingLogs, retryCount, inflight,
                   nextId, maxBatchSize, online, dbOps, maxOfflineEvents, ret,
                   postCount, lastBeacon, enqSince, scn,
                   beforeSend, sampleRate, consoleCaptured, transactions, sessionId,
                   breadcrumbs, maxBreadcrumbs, destroyed, retryAttempts, doc, wire, replaySend>>

\* OfflineManager.retrieveEvents called directly: a readonly transaction,
\* getAll() hands the records out and leaves them in the store
RetrieveCall ==
    /\ Len(retrieveEvents(store)) = Cardinality(DOMAIN store)
    /\ UNCHANGED vars

Beacons == {"queued", "refused", "missing"}

\* the sends that can be pending: flush starts one only when none is
Sends == 1..2

\* EchologClient.destroy(): the manager's interval is cleared, the console
\* restored and the breadcrumbs cleared. The two removeEventListener calls
\* pass arrow functions made for the call, which are not the listeners the
\* constructor added, so both listeners stay on the window.
Destroy ==
    /\ destroyed' = TRUE
    /\ consoleCaptured' = FALSE
    /\ breadcrumbs' = <<>>
    /\ scn' = "off"
    /\ UNCHANGED <<eventQueue, isFlushing, isSendingLogs, retryCount, inflight,
                   nextId, maxBatchSize, online, store, dbOps, maxOfflineEvents,
                   ret, postCount, lastBeacon, enqSince, storeOutcome, beforeSend,
                   sampleRate, transactions, sessionId, maxBreadcrumbs,
                   retryAttempts, doc, wire, replaySend>>

\* the 'beforeunload' event: the listener the constructor added calls
\* flush(true)
BeforeUnload(beacon) == ClientFlush(TRUE, beacon)

\* client.captureBreadcrumb with enableBreadcrumbs left at its default (true)
BreadcrumbMessages == {"click"}

CaptureBreadcrumb(message) ==
    /\ nextId <= MaxEvents
    /\ breadcrumbs' = add(breadcrumbs, maxBreadcrumbs, Breadcrumb(nextId, message))
    /\ nextId' = nextId + 1
    /\ UNCHANGED <<eventQueue, isFlushing, isSendingLogs, retryCount, inflight,
                   maxBatchSize, online, store, dbOps, maxOfflineEvents, ret,
                   postCount, lastBeacon, enqSince, storeOutcome, beforeSend,
                   sampleRate, consoleCaptured, transactions, sessionId,
                   maxBreadcrumbs, destroyed, retryAttempts, doc, wire, replaySend, scn>>

\* JSON values given to transformJsonForServer
JsonScalars ==
    {Json("string", "s"), Json("number", "1"), Json("null", ""),
     Json("undefined", "")}

JsonKeys == {"id", "level", "user", "user_data"}

\* objects of at most two entries with scalar values, in either key order
FlatObjects ==
    {Json("object", <<>>)}
    \cup {Json("object", <<<<k, x>>>>) : k \in JsonKeys, x \in JsonScalars}
    \cup {Json("object", <<<<e[1], e[2]>>, <<e[3], e[4]>>>>) :
            e \in {f \in JsonKeys \X JsonScalars \X JsonKeys \X JsonScalars :
                       f[1] # f[3]}}

RECURSIVE Depth(_)
Depth(value) ==
    IF value.t \notin {"array", "object"} \/ value.v = <<>> THEN 0
    ELSE IF value.t = "array" THEN 1 + Depth(value.v[1])
    ELSE 1 + Depth(value.v[Len(value.v)][2])

\* a caller holds a flat object or a scalar
JsonInput(value) ==
    /\ doc = NoJson
    /\ doc' = value
    /\ wire' = NoJson
    /\ UNCHANGED <<eventQueue, isFlushing, isSendingLogs, retryCount, inflight,
                   nextId, maxBatchSize, online, store, dbOps, maxOfflineEvents,
                   ret, postCount, lastBeacon, enqSince, storeOutcome,
                   beforeSend, sampleRate, consoleCaptured, transactions,
                   sessionId, breadcrumbs, maxBreadcrumbs, destroyed,
                   retryAttempts, replaySend, scn>>

\* the value becomes the last entry of an object, after an id when withId
JsonNest(key, withId) ==
    /\ doc # NoJson
    /\ Depth(doc) < MaxDepth
    /\ doc' = Json("object",
                   (IF withId THEN <<<<"id", Json("string", "s")>>>> ELSE <<>>)
                   \o <<<<key, doc>>>>)
    /\ wire' = NoJson
    /\ UNCHANGED <<eventQueue, isFlushing, isSendingLogs, retryCount, inflight,
                   nextId, maxBatchSize, online, store, dbOps, maxOfflineEvents,
                   ret, postCount, lastBeacon, enqSince, storeOutcome,
                   beforeSend, sampleRate, consoleCaptured, transactions,
                   sessionId, breadcrumbs, maxBreadcrumbs, destroyed,
                   retryAttempts, replaySend, scn>>

\* the value becomes the element of an array
JsonList ==
    /\ doc # NoJson
    /\ Depth(doc) < MaxDepth
    /\ doc' = Json("array", <<doc>>)
    /\ wire' = NoJson
    /\ UNCHANGED <<eventQueue, isFlushing, isSendingLogs, retryCount, inflight,
                   nextId, maxBatchSize, online, store, dbOps, maxOfflineEvents,
                   ret, postCount, lastBeacon, enqSince, storeOutcome,
                   beforeSend, sampleRate, consoleCaptured, transactions,
                   sessionId, breadcrumbs, maxBreadcrumbs, destroyed,
                   retryAttempts, replaySend, scn>>

\* transformJsonForServer(doc)
Transform ==
    /\ doc # NoJson
    /\ wire = NoJson
    /\ wire' = transformJson(doc)
    /\ UNCHANGED <<eventQueue, isFlushing, isSendingLogs, retryCount, inflight,
                   nextId, maxBatchSize, online, store, dbOps, maxOfflineEvents,
                   ret, postCount, lastBeacon, enqSince, storeOutcome,
                   beforeSend, sampleRate, consoleCaptured, transactions,
                   sessionId, breadcrumbs, maxBreadcrumbs, destroyed,
                   retryAttempts, doc, replaySend, scn>>

\* what the replay manager logs when the promise of sendReplays rejects
ReplayFailedMessage == "[Echolog] Failed to send replay event:"

\* the replay manager calls sendReplays: the flag is raised, fetch is called
SendReplays ==
    /\ replaySend.pc = "idle"
    /\ replaySend.calls < MaxPosts
    /\ replaySend' = [pc |-> "fetching", sending |-> TRUE,
                      calls |-> replaySend.calls + 1]
    /\ UNCHANGED <<retryCount, eventQueue, isFlushing, isSendingLogs, inflight, nextId, ret,
                   postCount, lastBeacon, enqSince, transactions, sessionId,
                   maxBatchSize, online, store, dbOps, maxOfflineEvents,
                   storeOutcome, beforeSend, sampleRate, consoleCaptured,
                   breadcrumbs, maxBreadcrumbs, destroyed, retryAttempts,
                   doc, wire, scn>>

\* the fetch of sendReplays resolves with an ok status
ReplayFetchSuccess ==
    /\ replaySend.pc = "fetching"
    /\ retryCount' = 0
    /\ replaySend' = [replaySend EXCEPT !.pc = "idle", !.sending = FALSE]
    /\ UNCHANGED <<eventQueue, isFlushing, isSendingLogs, inflight, nextId, ret,
                   postCount, lastBeacon, enqSince, transactions, sessionId,
                   maxBatchSize, online, store, dbOps, maxOfflineEvents,
                   storeOutcome, beforeSend, sampleRate, consoleCaptured,
                   breadcrumbs, maxBreadcrumbs, destroyed, retryAttempts,
                   doc, wire, scn>>

\* the fetch of sendReplays rejects or resolves with a non-ok status
ReplayFetchFail ==
    /\ replaySend.pc = "fetching"
    /\ retryCount < MaxFailures
    /\ consoleCaptured => nextId <= MaxEvents
    /\ retryCount' = retryCount + 1
    /\ IF retryCount + 1 <= maxRetryAttempts
       THEN /\ replaySend' = [replaySend EXCEPT !.pc = "backoff"]
            /\ SetMgr(Mgr)
       ELSE /\ replaySend' = [replaySend EXCEPT !.pc = "idle", !.sending = FALSE]
            /\ \E draw \in Draws :
                  SetMgr(consoleError(WithDraw(Mgr, draw), ReplayFailedMessage))
    /\ UNCHANGED <<maxBatchSize, online, store, dbOps, maxOfflineEvents,
                   storeOutcome, beforeSend, sampleRate, consoleCaptured,
                   breadcrumbs, maxBreadcrumbs, destroyed, retryAttempts,
                   doc, wire, scn>>

\* the backoff timer of sendReplays fires: the inner call issues its fetch
\* and the outer call's finally block clears the flag
ReplayBackoffDone ==
    /\ replaySend.pc = "backoff"
    /\ replaySend' = [replaySend EXCEPT !.pc = "fetching", !.sending = FALSE]
    /\ UNCHANGED <<retryCount, eventQueue, isFlushing, isSendingLogs, inflight, nextId, ret,
                   postCount, lastBeacon, enqSince, transactions, sessionId,
                   maxBatchSize, online, store, dbOps, maxOfflineEvents,
                   storeOutcome, beforeSend, sampleRate, consoleCaptured,
                   breadcrumbs, maxBreadcrumbs, destroyed, retryAttempts,
                   doc, wire, scn>>

\* ------------------------------------------------------- specifications
\* The capture, flush and delivery pipeline with the network up.
Next ==
    \/ \E message \in CaptureMessages : ClientCaptureMessage(message)
    \/ \E sdkOrigin \in BOOLEAN : ClientCaptureException(sdkOrigin)
    \/ \E message \in ProducerMessages : ProducerCapture(message)
    \/ TimerFlush
    \/ \E sync \in BOOLEAN, beacon \in Beacons : ClientFlush(sync, beacon)
    \/ \E i \in Sends : FetchSuccess(i)
    \/ \E i \in Sends : FetchFail(i)
    \/ \E i \in Sends : BackoffDone(i)

Spec == Init /\ [][Next]_vars

\* Offline capture, the offline store and the replay on 'online'; the
\* transport answers every request.
NextOffline ==
    \/ \E message \in CaptureMessages : ClientCaptureMessage(message)
    \/ \E sdkOrigin \in BOOLEAN : ClientCaptureException(sdkOrigin)
    \/ TimerFlush
    \/ \E i \in Sends : FetchSuccess(i)
    \/ GoOffline
    \/ GoOnline
    \/ DbStore
    \/ DbRetrieve
    \/ DbClear

SpecOffline == Init /\ [][NextOffline]_vars

\* The Normalizer under every hook and sample rate; the transport answers
\* every request.
InitCapture == Configured(Hooks, Rates, {FALSE})

NextCapture ==
    \/ \E partial \in Partials : CaptureEventCall(partial)
    \/ \E message \in {"A"} : ClientCaptureMessage(message)
    \/ TimerFlush
    \/ \E i \in Sends : FetchSuccess(i)

SpecCapture == InitCapture /\ [][NextCapture]_vars


\* The session and transaction calls of the client, with and without a
\* beforeSend hook that throws; the transport answers every request.
InitApi == Configured({"none", "throws"}, {FullRate}, {FALSE})

NextApi ==
    \/ StartSession
    \/ \E beacon \in Beacons : EndSession(beacon)
    \/ StartTransaction
    \/ \E traceId \in 1..MaxEvents, op \in SpanOps : StartSpan(traceId, op)
    \/ \E traceId \in 1..MaxEvents, spanId \in 1..MaxEvents : FinishSpan(traceId, spanId)
    \/ \E traceId \in 1..MaxEvents, slow \in BOOLEAN : FinishTransaction(traceId, slow)
    \/ \E message \in {"A"} : ClientCaptureMessage(message)
    \/ TimerFlush
    \/ \E i \in Sends : FetchSuccess(i)

SpecApi == InitApi /\ [][NextApi]_vars

\* The transaction calls alone, with sampleRate 1 (no transaction is
\* sampled out), with and without a beforeSend hook that throws.
NextTx ==
    \/ StartTransaction
    \/ \E traceId \in 1..MaxEvents, op \in SpanOps : StartSpan(traceId, op)
    \/ \E traceId \in 1..MaxEvents, spanId \in 1..MaxEvents : FinishSpan(traceId, spanId)
    \/ \E traceId \in 1..MaxEvents, slow \in BOOLEAN : FinishTransaction(traceId, slow)
    \/ TimerFlush
    \/ \E i \in Sends : FetchSuccess(i)

SpecTx == InitApi /\ [][NextTx]_vars

\* The OfflineManager under direct calls.
NextStore ==
    \/ \E id \in 0..MaxEvents, message \in CaptureMessages, maxEvents \in OfflineSizes :
          StoreCall(id, message, maxEvents)
    \/ ClearCall

SpecStore == Init /\ [][NextStore]_vars

\* The OfflineManager under direct calls that all pass the one configured
\* maxOfflineEvents, as the client does.
NextStoreFixed ==
    \/ \E id \in 0..MaxEvents, message \in CaptureMessages :
          StoreCall(id, message, maxOfflineEvents)
    \/ RetrieveCall
    \/ ClearCall

SpecStoreFixed == Init /\ [][NextStoreFixed]_vars

\* The reconnect replay over records an earlier page load of the same origin
\* left in the EchologDB database, with and without a beforeSend hook that
\* throws, in the time before the flush timer fires and a POST is answered.
NextReplay ==
    \/ \E id \in 1..MaxEvents : StoreCall(id, ExceptionMessage, maxOfflineEvents)
    \/ GoOffline
    \/ GoOnline
    \/ DbRetrieve
    \/ DbClear

SpecReplay == InitApi /\ [][NextReplay]_vars

\* The pipeline fed by captureMessage alone, under the provisos of the
\* delivery claims: the flush timer keeps firing, every backoff delay ends,
\* and a fetch that is pending again and again is answered with success at
\* some point. The offline store plays no part here: one size of it is
\* enough.
InitFair == Init /\ maxOfflineEvents = MaxOffline

NextFair ==
    \/ \E message \in {"A"} : ClientCaptureMessage(message)
    \/ TimerFlush
    \/ \E sync \in BOOLEAN, beacon \in Beacons : ClientFlush(sync, beacon)
    \/ \E i \in Sends : FetchSuccess(i)
    \/ \E i \in Sends : FetchFail(i)
    \/ \E i \in Sends : BackoffDone(i)

SpecFair ==
    /\ InitFair
    /\ [][NextFair]_vars
    /\ WF_vars(TimerFlush)
    /\ \A i \in Sends : WF_vars(BackoffDone(i))
    /\ \A i \in Sends : SF_vars(FetchSuccess(i))

\* The pipeline of SpecFair with the console wrapped by setupConsoleCapture.
InitConsole == Configured({"none"}, {FullRate}, {TRUE})

SpecConsole == InitConsole /\ [][NextFair]_vars

\* The client's timer and window events before and after destroy().
NextDestroy ==
    \/ \E message \in {ExceptionMessage} : ClientCaptureMessage(message)
    \/ Destroy
    \/ \E beacon \in Beacons : BeforeUnload(beacon)
    \/ TimerFlush
    \/ \E i \in Sends : FetchSuccess(i)
    \/ GoOffline
    \/ GoOnline
    \/ DbStore
    \/ DbRetrieve
    \/ DbClear

SpecDestroy == InitFair /\ [][NextDestroy]_vars

\* The pipeline with its transport failures, before and after destroy(),
\* with no explicit flush call.
NextTeardown ==
    \/ \E message \in {ExceptionMessage} : ClientCaptureMessage(message)
    \/ Destroy
    \/ TimerFlush
    \/ \E i \in Sends : FetchSuccess(i)
    \/ \E i \in Sends : FetchFail(i)
    \/ \E i \in Sends : BackoffDone(i)

SpecTeardown == InitFair /\ [][NextTeardown]_vars

\* SpecTeardown with the interval firing for as long as it is set, every
\* backoff elapsing and the transport answering.
SpecTimer ==
    /\ SpecTeardown
    /\ WF_vars(TimerFlush)
    /\ \A i \in Sends : WF_vars(BackoffDone(i))
    /\ \A i \in Sends : SF_vars(FetchSuccess(i))

\* The pipeline of SpecFair for a client constructed without a retryAttempts
\* option, with retryAttempts: 1 and with retryAttempts: 3.
RetryOptions == {<<>>, <<1>>, <<DefaultRetryAttempts>>}

InitRetry ==
    /\ ConfiguredFor({"none"}, {FullRate}, {FALSE}, {MaxCrumbs}, RetryOptions)
    /\ maxOfflineEvents = MaxOffline

SpecRetry == InitRetry /\ [][NextFair]_vars

\* transformJsonForServer on nested JSON values
NestKeys == {"user", "level", "user_data"}

NextJson ==
    \/ \E value \in FlatObjects \cup JsonScalars : JsonInput(value)
    \/ \E key \in NestKeys, withId \in BOOLEAN : JsonNest(key, withId)
    \/ JsonList
    \/ Transform

SpecJson == InitFair /\ [][NextJson]_vars

\* The pipeline of SpecFair where every fetch is answered, by success or by
\* failure, and every backoff delay elapses.
SpecSettle ==
    /\ InitFair
    /\ [][NextFair]_vars
    /\ \A i \in Sends : WF_vars(FetchSuccess(i) \/ FetchFail(i))
    /\ \A i \in Sends : WF_vars(BackoffDone(i))

\* Log sends and replay sends of one EventSender side by side
NextSender ==
    \/ \E message \in {ExceptionMessage} : ClientCaptureMessage(message)
    \/ TimerFlush
    \/ \E i \in Sends : FetchSuccess(i)
    \/ \E i \in Sends : FetchFail(i)
    \/ \E i \in Sends : BackoffDone(i)
    \/ SendReplays
    \/ ReplayFetchSuccess
    \/ ReplayFetchFail
    \/ ReplayBackoffDone

SpecSender == InitFair /\ [][NextSender]_vars

\* Breadcrumbs: the ring buffer under every configured cap, beside captures
\* and the timer-driven flush.
CrumbSizes == 0..MaxCrumbs

InitCrumbs == ConfiguredWith({"none"}, {FullRate}, {FALSE}, CrumbSizes)

NextCrumbs ==
    \/ \E message \in BreadcrumbMessages : CaptureBreadcrumb(message)
    \/ \E message \in CaptureMessages : ClientCaptureMessage(message)
    \/ TimerFlush
    \/ \E i \in 1..MaxBatch : FetchSuccess(i)

SpecCrumbs == InitCrumbs /\ [][NextCrumbs]_vars

\* ------------------------------------------------------ step vocabulary
\* a public capture call of the client or of a producer
CaptureCall ==
    \/ \E message \in CaptureMessages : ClientCaptureMessage(message)
    \/ \E sdkOrigin \in BOOLEAN : ClientCaptureException(sdkOrigin)
    \/ \E message \in ProducerMessages : ProducerCapture(message)

\* a flush request that is not the batch threshold's
FlushRequest ==
    \/ TimerFlush
    \/ \E sync \in BOOLEAN, beacon \in Beacons : ClientFlush(sync, beacon)

InflightIds == UNION {Ids(inflight[i].batch) : i \in DOMAIN inflight}

\* the event is in the send queue or in the batch of a pending send
InPipeline(id) == id \in Ids(eventQueue) \cup InflightIds

\* events in the queue and in the batches of pending sends
RECURSIVE BatchTotal(_)
BatchTotal(frames) ==
    IF frames = <<>> THEN 0 ELSE Len(Head(frames).batch) + BatchTotal(Tail(frames))

PipelineSize == Len(eventQueue) + BatchTotal(inflight)

IsPrefix(a, b) == Len(a) <= Len(b) /\ \A j \in 1..Len(a) : a[j] = b[j]

\* the promise of the send at inflight[i] rejects in this step
TerminalFailure(i) ==
    /\ i \in DOMAIN inflight
    /\ inflight[i].pc = "fetching"
    /\ retryCount' > maxRetryAttempts
    /\ inflight' = RemoveAt(inflight, i)

\* the transport accepts the batch holding the event in this step
FetchAccepted(id) ==
    \E i \in DOMAIN inflight :
        /\ id \in Ids(inflight[i].batch)
        /\ inflight[i].pc = "fetching"
        /\ retryCount' = 0
        /\ inflight' = RemoveAt(inflight, i)

\* a synchronous flush hands the queue holding the event to sendEventsSync
SyncHanded(id) ==
    /\ id \in Ids(eventQueue)
    /\ eventQueue' = <<>>
    /\ lastBeacon'.batch = eventQueue
    /\ inflight' = inflight

\* ------------------------------------------------------------ properties
\* C1: while the Delivery Engine reports that it is sending, every call of
\* captureEvent, captureMessage or captureException returns null / the empty
\* id and leaves the send queue unchanged.
C1_GuardedCaptureIsNoOp ==
    [][(isSendingLogs /\ CaptureCall) =>
         (ret'.id = NullId /\ eventQueue' = eventQueue)]_vars

\* a capture call has just been turned away by the guard of a pending send
C1_Witness ==
    /\ isSendingLogs
    /\ Len(inflight) = 1
    /\ ret = Ret(NullId, "sending")

C3_RequeueKeepsOrder ==
    [][\A i \in Sends :
         TerminalFailure(i) =>
            /\ eventQueue' = inflight[i].batch \o enqSince
            /\ enqSince = eventQueue]_vars

\* a batch of two was re-queued in front of an event captured during its retries
C3_Witness ==
    /\ maxBatchSize = 2
    /\ inflight = <<>>
    /\ ~isFlushing
    /\ retryCount = maxRetryAttempts + 1
    /\ eventQueue = <<Event(1, "App opened"), Event(2, "A"), Event(3, "B")>>

\* C4 as stated: with maxBatchSize = 2, captureMessage("A") then
\* captureMessage("B") give one POST whose body is the events for A and B.
C4_Original ==
    (scn = "AB" /\ maxBatchSize = 2) =>
        /\ postCount = 1
        /\ Len(inflight) = 1
        /\ inflight[1].key = "header"
        /\ Len(inflight[1].body) = 2
        /\ inflight[1].body[1].message = "A"
        /\ inflight[1].body[2].message = "B"

\* C4, amended: with maxBatchSize = 2, captureMessage("A") then
\* captureMessage("B") give exactly one POST, sent with the x-api-key header,
\* whose body is the constructor's 'App opened' event followed by the event
\* for A; the call for B is made while that POST is pending, returns the
\* empty id and queues nothing.
C4_FirstBatchIsAppOpenedAndA ==
    (scn = "AB" /\ maxBatchSize = 2) =>
        /\ postCount = 1
        /\ Len(inflight) = 1
        /\ inflight[1].key = "header"
        /\ Len(inflight[1].body) = 2
        /\ inflight[1].body[1].message = "App opened"
        /\ inflight[1].body[2].message = "A"
        /\ inflight[1].body[2].id = 2
        /\ eventQueue = <<>>
        /\ ret = Ret(NullId, "sending")

\* the two calls of the scenario have been made on a client with maxBatchSize 2
C4_Witness == scn = "AB" /\ maxBatchSize = 2

\* C5 as stated: an accepted event leaves the pipeline only in a batch the
\* transport accepted, by a successful fetch or a beacon that was queued.
C5_Original ==
    [][\A id \in 1..MaxEvents :
         (InPipeline(id) /\ ~InPipeline(id)') =>
            \/ FetchAccepted(id)
            \/ SyncHanded(id) /\ lastBeacon'.result = "queued"]_vars

\* C5, amended: an accepted event leaves the pipeline only in a batch that a
\* fetch delivered or that a synchronous flush handed to sendEventsSync (which
\* is not retried when the beacon is refused or missing), and under the
\* provisos it does leave it; a batch whose asynchronous send failed is never
\* discarded.
C5_AcceptedEventsAreDelivered ==
    /\ [][\A id \in 1..MaxEvents :
            (InPipeline(id) /\ ~InPipeline(id)') =>
               (FetchAccepted(id) \/ SyncHanded(id))]_vars
    /\ \A id \in 1..MaxEvents : InPipeline(id) ~> ~InPipeline(id)

\* every queued event was delivered by fetch, after at least one retry or re-flush
C5_Witness ==
    /\ eventQueue = <<>>
    /\ inflight = <<>>
    /\ retryCount = 0
    /\ postCount >= 2
    /\ lastBeacon = NoBeacon
    /\ nextId > 2

\* C6 as stated: the record of an offline capture is in the store once its
\* storeEvent ran; the replay on 'online' brings every stored record into the
\* pipeline; the store is empty once the replay's clearStoredEvents ran.
C6_Original ==
    /\ [][(dbOps # <<>> /\ Head(dbOps).op = "store" /\ DbStore) =>
            Head(dbOps).id \in DOMAIN store']_vars
    /\ [][(dbOps # <<>> /\ Head(dbOps).op = "retrieve" /\ DbRetrieve) =>
            PipelineSize' = PipelineSize + Cardinality(DOMAIN store)]_vars
    /\ [][(dbOps # <<>> /\ Head(dbOps).op = "clear" /\ DbClear) =>
            store' = EmptyStore]_vars

\* C7: at most one flush is in flight; a flush requested while isFlushing is
\* true, by the timer, an explicit or synchronous call or the batch threshold
\* of a capture, issues no transport call and takes nothing from the queue.
C7_SingleFlush ==
    /\ [](Len(inflight) <= 1 /\ (isFlushing <=> inflight # <<>>))
    /\ [][(isFlushing /\ FlushRequest) =>
            UNCHANGED <<eventQueue, inflight, postCount, lastBeacon, isFlushing>>]_vars
    /\ [][(isFlushing /\ CaptureCall) =>
            /\ UNCHANGED <<inflight, postCount, lastBeacon, isFlushing>>
            /\ IsPrefix(eventQueue, eventQueue')]_vars

\* a capture filled the queue to the batch size while a flush was in flight
C7_Witness ==
    /\ isFlushing
    /\ Len(inflight) = 1
    /\ Len(eventQueue) >= maxBatchSize
    /\ ret.why = "queued"

\* C8 as stated: a sendEvents call whose attempts all fail rejects after
\* exactly the maximum number of retries, one first attempt and
\* maxRetryAttempts more.
C8_Original ==
    /\ [][\A i \in Sends :
            TerminalFailure(i) => inflight[i].attempts = maxRetryAttempts + 1]_vars
    /\ [](\A i \in DOMAIN inflight : inflight[i].attempts <= maxRetryAttempts + 1)

\* C9 as stated: storeEvent of a new id on a store holding maxEvents records
\* or more deletes the first record in key order only and inserts the new one.
C9_Original ==
    [][\A id \in 0..MaxEvents, message \in CaptureMessages, maxEvents \in OfflineSizes :
         (/\ StoreCall(id, message, maxEvents)
          /\ id \notin DOMAIN store
          /\ Cardinality(DOMAIN store) >= maxEvents) =>
            store' = StorePut(StoreDelete(store, Min(DOMAIN store)), id, message)]_vars

\* C10 as stated: storeEvent of an id that is a key of the store succeeds and
\* leaves the new value under that id, the number of records unchanged.
C10_Original ==
    [][\A id \in 0..MaxEvents, message \in CaptureMessages, maxEvents \in OfflineSizes :
         (StoreCall(id, message, maxEvents) /\ id \in DOMAIN store) =>
            /\ storeOutcome' = "stored"
            /\ Cardinality(DOMAIN store') = Cardinality(DOMAIN store)
            /\ store'[id] = message]_vars

\* C10, amended: storeEvent of an id that is a key of the store is rejected
\* by store.add: the store keeps every record it had, the old value under
\* that id included, and the failure is caught and logged.
C10_DuplicateIdIsRejected ==
    [][\A id \in 0..MaxEvents, message \in CaptureMessages, maxEvents \in OfflineSizes :
         (StoreCall(id, message, maxEvents) /\ id \in DOMAIN store) =>
            (store' = store /\ storeOutcome' = "rejected")]_vars

\* a storeEvent of a stored id has just been rejected
C10_Witness == storeOutcome = "rejected" /\ store # EmptyStore

\* the fields of the schema the model carries, for an event of each shape
SchemaFields(e) ==
    IF "spans" \in DOMAIN e
    THEN {"id", "service_name", "message", "console", "name", "start_timestamp",
          "end_timestamp", "spans", "op"}
    ELSE {"id", "service_name", "message", "console"}

\* the events in the queue and in the batches of pending sends
PipelineEvents ==
    {eventQueue[i] : i \in DOMAIN eventQueue}
        \cup UNION {{inflight[i].batch[j] : j \in DOMAIN inflight[i].batch} :
                       i \in DOMAIN inflight}

\* C11 as stated: every event that reaches the queue has every schema field
\* present and none of them undefined.
C11_Original ==
    \A e \in PipelineEvents :
        /\ SchemaFields(e) \subseteq DOMAIN e
        /\ \A k \in SchemaFields(e) : ~IsUndefined(e, k)

\* C11, amended: every event that reaches the queue has every schema field
\* present, and each is defined except, on a transaction-shaped event,
\* end_timestamp (undefined when the input has none) and name (copied from
\* the input as it is).
C11_SchemaFieldsDefined ==
    \A e \in PipelineEvents :
        /\ SchemaFields(e) \subseteq DOMAIN e
        /\ \A k \in SchemaFields(e) :
              IsUndefined(e, k) =>
                 ("spans" \in DOMAIN e /\ k \in {"end_timestamp", "name"})

\* a plain event built from an input without message and console is queued
C11_Witness ==
    \E i \in DOMAIN eventQueue :
        /\ "spans" \notin DOMAIN eventQueue[i]
        /\ eventQueue[i].message = ""
        /\ eventQueue[i].console = Null

\* the events of the pending batches, oldest batch first
RECURSIVE BatchEvents(_)
BatchEvents(frames) ==
    IF frames = <<>> THEN <<>> ELSE Head(frames).batch \o BatchEvents(Tail(frames))

\* every event appended to the queue and not yet delivered, in order
Appended == BatchEvents(inflight) \o eventQueue

\* C12 (as stated): no two events appended to the send queue carry the same
\* id, the events emitted for a transaction's start, span start, span finish
\* and transaction finish included. Checked on the events that are in the
\* pending batches and in the queue at one time.
C12_Original ==
    \A i, j \in DOMAIN Appended : i # j => Appended[i].id # Appended[j].id

\* C13 (as stated): no public method of the client lets an exception escape
\* to its caller, even when the beforeSend hook throws: no call of the client
\* ends with the exception of the hook.
C13_Original == ret.why # "threw"

\* C14 (as stated): with console capture installed, the error the SDK logs
\* when a send fails is never captured as a telemetry event: a failed
\* delivery adds no event to the queue other than the re-queued batch.
C14_Original ==
    \A k \in DOMAIN Appended : Appended[k].message # SendFailedMessage

\* the send started last
LastSend(frames) == frames[Len(frames)]

\* C15: whenever an accepted capture brings the queue length to maxBatchSize
\* or more and no flush is in flight, the Delivery Engine is invoked with the
\* queued events, the new one last, within the capture call: no timer step
\* lies between the capture and the request.
C15_ThresholdFlushIsSynchronous ==
    [][(/\ ~isFlushing
        /\ Len(eventQueue) + 1 >= maxBatchSize
        /\ ret'.why = "queued"
        /\ CaptureCall)
       => /\ Len(inflight') = Len(inflight) + 1
          /\ LastSend(inflight').pc = "fetching"
          /\ LastSend(inflight').attempts = 1
          /\ Len(LastSend(inflight').batch) = Len(eventQueue) + 1
          /\ IsPrefix(eventQueue, LastSend(inflight').batch)
          /\ LastSend(inflight').batch[Len(eventQueue) + 1].id = ret'.id
          /\ LastSend(inflight').body = WireBody(LastSend(inflight').batch)
          /\ eventQueue' = <<>>
          /\ isFlushing'
          /\ isSendingLogs']_vars

\* the third event of a client with maxBatchSize 3 was captured and the three
\* are in the first request, which is pending
C15_Witness ==
    /\ maxBatchSize = 3
    /\ ret.why = "queued"
    /\ eventQueue = <<>>
    /\ postCount = 1
    /\ Len(inflight) = 1
    /\ inflight[1].pc = "fetching"
    /\ inflight[1].attempts = 1
    /\ Len(inflight[1].batch) = 3
    /\ inflight[1].batch[3].id = ret.id

\* a flush request that takes the asynchronous path
AsyncFlushRequest ==
    \/ TimerFlush
    \/ \E beacon \in Beacons : ClientFlush(FALSE, beacon)

\* a flush request that takes the synchronous path
SyncFlushRequest == \E beacon \in Beacons : ClientFlush(TRUE, beacon)

\* C16: a flush hands the Delivery Engine exactly the events that were in the
\* queue when it started, in enqueue order (as the batch of a new request on
\* the asynchronous path, as the batch of the beacon on the synchronous one),
\* and the queue is empty as soon as the handoff is made.
C16_FlushHandsTheQueueOver ==
    [][/\ (~isFlushing /\ eventQueue # <<>> /\ AsyncFlushRequest)
          => /\ Len(inflight') = Len(inflight) + 1
             /\ LastSend(inflight').batch = eventQueue
             /\ LastSend(inflight').body = WireBody(eventQueue)
             /\ eventQueue' = <<>>
       /\ (~isFlushing /\ eventQueue # <<>> /\ SyncFlushRequest)
          => /\ lastBeacon'.batch = eventQueue
             /\ BeaconBody(lastBeacon') \in {WireBody(eventQueue), <<>>}
             /\ eventQueue' = <<>>]_vars

\* a flush asked for below the batch threshold handed over the two events
\* that were queued, in their order
C16_Witness ==
    /\ maxBatchSize = 3
    /\ eventQueue = <<>>
    /\ Len(inflight) = 1
    /\ inflight[1].attempts = 1
    /\ inflight[1].batch = <<Event(1, "App opened"), Event(2, "A")>>

\* C17: a synchronous flush hands the whole queue to the beacon transport
\* once, starts no request of the retrying path and does not re-queue: when
\* it returns the queue is empty and isFlushing is false, whatever the beacon
\* transport answered, and no event of the batch is in the queue or in a
\* pending batch afterwards.
C17_SyncFlushIsOneShot ==
    /\ [][\A beacon \in Beacons :
            (~isFlushing /\ eventQueue # <<>> /\ ClientFlush(TRUE, beacon))
            => /\ lastBeacon' = [result |-> beacon, batch |-> eventQueue]
               /\ eventQueue' = <<>>
               /\ ~isFlushing'
               /\ inflight' = inflight
               /\ postCount' = postCount
               /\ retryCount' = retryCount]_vars
    /\ [](Ids(lastBeacon.batch) \cap (Ids(eventQueue) \cup InflightIds) = {})

\* a page-unload flush of two events that the beacon transport refused
C17_Witness ==
    /\ lastBeacon.result = "refused"
    /\ Len(lastBeacon.batch) = 2
    /\ eventQueue = <<>>
    /\ ~isFlushing
    /\ inflight = <<>>
    /\ postCount = 0

\* C18 (as stated): isSendingLogsActive() is true from the start of an
\* asynchronous sendEvents call on a non-empty batch until its promise
\* settles, every backoff wait and every retry included, and false whenever
\* no asynchronous send is in progress.
C18_Original == isSendingLogsActive(Mgr) <=> inflight # <<>>

\* C19 (as stated): with sampleRate = 0 the sampling step drops every event,
\* so that no capture is accepted, and with sampleRate = 1 it never drops
\* one, for every draw of Math.random() in [0, 1).
C19_Original ==
    /\ sampleRate = 0 => ret.why # "queued"
    /\ sampleRate = FullRate => ret.why # "sampled"

\* the event a capture step has appended: the last of the queue, or of the
\* batch just handed over when the capture reached the batch threshold
NewEvent ==
    IF eventQueue' # <<>> THEN eventQueue'[Len(eventQueue')]
    ELSE LastSend(inflight').batch[Len(LastSend(inflight').batch)]

\* C20: with a beforeSend hook configured, a falsy return discards the event
\* (captureEvent returns null, the queue and the pending batches are as
\* before), and a non-falsy return is merged onto the normalized event: the
\* appended event has the fields of the normalized event, with the hook's
\* value for each field the hook returned and the normalized value for every
\* other one.
C20_HookReturnIsMerged ==
    [][\A partial \in Partials :
         /\ (beforeSend = "falsy" /\ CaptureEventCall(partial))
            => /\ ret'.id = NullId
               /\ eventQueue' = eventQueue
               /\ inflight' = inflight
         /\ (beforeSend = "partial" /\ ret'.why = "queued"
                /\ CaptureEventCall(partial))
            => LET normalized == Normalize(partial, ret'.id, sessionId)
                   returned == HookReturn(beforeSend, normalized)
               IN  /\ DOMAIN NewEvent = DOMAIN normalized
                   /\ \A k \in DOMAIN normalized :
                         NewEvent[k] = IF k \in DOMAIN returned THEN returned[k]
                                       ELSE normalized[k]]_vars

\* a transaction-shaped event went through a hook that returns a message
\* only: the queued event has the hook's message and its normalized fields
C20_Witness ==
    /\ beforeSend = "partial"
    /\ ret.why = "queued"
    /\ eventQueue # <<>>
    /\ LET e == eventQueue[Len(eventQueue)]
       IN  /\ e.id = ret.id
           /\ e.message = "H"
           /\ "spans" \in DOMAIN e
           /\ e.name = "page_load"
           /\ e.op = "navigation"
           /\ e.service_name = ServiceName

\* C21: the breadcrumb buffer never holds more than maxBreadcrumbs entries,
\* its entries are in insertion order, and every captureBreadcrumb leaves
\* the newest maxBreadcrumbs of the old entries followed by the new one
\* (the oldest is the one evicted).
LastN(s, n) == SubSeq(s, Len(s) - Min({n, Len(s)}) + 1, Len(s))

C21_RingBufferKeepsTheNewest ==
    /\ [](Len(breadcrumbs) <= maxBreadcrumbs)
    /\ [](\A i, j \in 1..Len(breadcrumbs) :
             i < j => breadcrumbs[i].id < breadcrumbs[j].id)
    /\ [][\A message \in BreadcrumbMessages :
             CaptureBreadcrumb(message) =>
                 breadcrumbs' = LastN(Append(breadcrumbs,
                                             Breadcrumb(nextId, message)),
                                      maxBreadcrumbs)]_vars

\* three breadcrumbs (ids 2, 3, 4) were added under a cap of 2 and nothing
\* else was captured: the buffer holds the last two
C21_Witness ==
    /\ maxBreadcrumbs = 2
    /\ nextId = 5
    /\ [i \in 1..Len(breadcrumbs) |-> breadcrumbs[i].id] = <<3, 4>>
    /\ Len(eventQueue) = 1
    /\ postCount = 0

\* C22: under storeEvent, retrieveEvents and clearStoredEvents calls that all
\* pass the same maxCount (at least 1), the offline store never holds more
\* than maxCount records.
C22_StoreStaysWithinMaxCount ==
    maxOfflineEvents >= 1 => Cardinality(DOMAIN store) <= maxOfflineEvents

\* storeEvent calls have filled the store to maxCount records
C22_Witness ==
    /\ storeOutcome = "stored"
    /\ maxOfflineEvents >= 2
    /\ Cardinality(DOMAIN store) = maxOfflineEvents

\* C23: when the re-submission of a stored record throws during the replay
\* on 'online', no clearStoredEvents is issued and the store keeps every
\* record it held; the handler ends normally, no thrown outcome is left.
ReplayRuns == dbOps # <<>> /\ Head(dbOps).op = "retrieve"

ReplayThrows ==
    /\ beforeSend = "throws"
    /\ ~isSendingLogs
    /\ \E k \in DOMAIN store : ~HasDebugMarker(store[k])

C23_ThrowingReplayKeepsTheStore ==
    /\ [][(ReplayRuns /\ ReplayThrows /\ DbRetrieve) =>
            /\ store' = store
            /\ \A i \in DOMAIN dbOps' : dbOps'[i].op # "clear"
            /\ ret' = ret]_vars
    /\ [](beforeSend = "throws" =>
            \A i \in DOMAIN dbOps : dbOps[i].op # "clear")

\* the replay ran over a store of two records with a throwing hook and left
\* them there, nothing waiting in the IndexedDB queue
C23_Witness ==
    /\ beforeSend = "throws"
    /\ online
    /\ scn = "off"
    /\ dbOps = <<>>
    /\ Cardinality(DOMAIN store) = 2

\* C24 as stated: endSession with an active session enqueues exactly one
\* 'Session ended' event carrying that session's id and duration, clears the
\* session, and that event has gone to the beacon transport, and nowhere
\* else, when endSession returns. Stated for the calls made with no hook
\* configured while no send or flush is in progress.
SessionEnded(e, sid) ==
    e.message = "Session ended" /\ e.session = Session(sid, "elapsed")

EndedIn(events, sid) == {i \in DOMAIN events : SessionEnded(events[i], sid)}

C24_Original ==
    [][\A beacon \in Beacons :
         (/\ sessionId # NullId
          /\ beforeSend = "none"
          /\ ~isSendingLogs
          /\ ~isFlushing
          /\ EndSession(beacon)) =>
            /\ sessionId' = NullId
            /\ Cardinality(EndedIn(lastBeacon'.batch, sessionId)) = 1
            /\ EndedIn(eventQueue', sessionId) = {}
            /\ \A i \in DOMAIN inflight' :
                  EndedIn(inflight'[i].batch, sessionId) = {}]_vars

\* C25 as stated: after startSession the session id is defined and a
\* 'Session started' event carrying that id is in the pipeline.
SessionStarted(e, sid) ==
    e.message = "Session started" /\ e.session = Session(sid, Undefined)

C26_EndSessionWithoutSessionIsNoOp ==
    /\ [][\A beacon \in Beacons :
            (sessionId = NullId /\ EndSession(beacon)) =>
                UNCHANGED <<eventQueue, inflight, isFlushing, isSendingLogs,
                            postCount, lastBeacon, enqSince, nextId, sessionId,
                            transactions>>]_vars
    /\ [][\A beacon \in Beacons :
            (sessionId # NullId /\ beforeSend = "none" /\ EndSession(beacon)) =>
                sessionId' = NullId /\ nextId' = nextId + 1]_vars

\* endSession was called on a client that never started a session, with an
\* event waiting in the queue
C26_Witness ==
    /\ ret = Ret(NullId, "done")
    /\ nextId = 2
    /\ sessionId = NullId
    /\ eventQueue # <<>>
    /\ lastBeacon = NoBeacon

\* C27: finishSpan on a span that is finished already changes nothing: the
\* span keeps the end_timestamp and duration_ms the first call set, no event
\* is appended or sent and no id is drawn. The first finishSpan sets both
\* fields.
SpanAt(traceId, spanId) ==
    IF traceId \notin DOMAIN transactions THEN {}
    ELSE {k \in DOMAIN transactions[traceId].spans :
             transactions[traceId].spans[k].span_id = spanId}

FinishedSpan(traceId, spanId) ==
    \E k \in SpanAt(traceId, spanId) :
        transactions[traceId].spans[k].end_timestamp # Undefined

C27_FinishSpanIsIdempotent ==
    /\ [][\A traceId \in 1..MaxEvents, spanId \in 1..MaxEvents :
            (FinishedSpan(traceId, spanId) /\ FinishSpan(traceId, spanId)) =>
                UNCHANGED <<transactions, eventQueue, inflight, isFlushing,
                            isSendingLogs, postCount, lastBeacon, enqSince,
                            nextId, sessionId>>]_vars
    /\ [][\A traceId \in 1..MaxEvents, spanId \in 1..MaxEvents :
            (/\ SpanAt(traceId, spanId) # {}
             /\ ~FinishedSpan(traceId, spanId)
             /\ FinishSpan(traceId, spanId)) =>
                \A k \in SpanAt(traceId, spanId) :
                    /\ transactions'[traceId].spans[k].end_timestamp = Now
                    /\ transactions'[traceId].spans[k].duration_ms = "elapsed"]_vars

\* finishSpan has just returned from a span that was finished before, with
\* the transaction still open
C27_Witness ==
    /\ ret = Ret(NullId, "finished")
    /\ \E traceId \in DOMAIN transactions :
          \E k \in DOMAIN transactions[traceId].spans :
              /\ transactions[traceId].spans[k].end_timestamp = Now
              /\ transactions[traceId].spans[k].duration_ms = "elapsed"

\* C28: the transaction map holds the transactions that were started, until
\* finishTransaction returns for them. A startTransaction that is not
\* sampled out adds its trace id; a finishTransaction that returns removes
\* its trace id; nothing else changes the keys. For a trace
\* id that is not in the map, startSpan returns null and adds no span,
\* finishSpan and finishTransaction do nothing, and none of them emits an
\* event or draws an id: a step that returns an id, or changes the map, the
\* pipeline, the id counter or the session, is no such call.
TransactionFrame ==
    UNCHANGED <<transactions, eventQueue, inflight, isFlushing, isSendingLogs,
                postCount, lastBeacon, enqSince, nextId, sessionId>>

\* a startSpan, finishSpan or finishTransaction call made with this trace id
CallOn(traceId) ==
    \/ \E op \in SpanOps : StartSpan(traceId, op)
    \/ \E spanId \in 1..MaxEvents : FinishSpan(traceId, spanId)
    \/ \E slow \in BOOLEAN : FinishTransaction(traceId, slow)

C29_Original ==
    [][\A beacon \in Beacons :
         ClientFlush(FALSE, beacon) =>
            Ids(eventQueue) \cap InflightIds' = {}]_vars

\* C30 as stated: once destroy() has run, a 'beforeunload' event flushes
\* nothing and an 'online' event starts no replay of the offline store.
C30_Original ==
    /\ [][\A beacon \in Beacons :
            (destroyed /\ BeforeUnload(beacon)) =>
                UNCHANGED <<eventQueue, lastBeacon>>]_vars
    /\ [][(destroyed /\ ~online /\ online') => dbOps' = dbOps]_vars

\* C31: once destroy() has run the timer starts no flush: a send that begins
\* after it comes from a capture that reached the batch threshold. destroy()
\* itself leaves the queue and a send in flight as they are, and a pending
\* fetch can still be answered.
C31_DestroyCancelsTheTimer ==
    /\ [][destroyed => ~TimerFlush]_vars
    /\ [][(destroyed /\ Len(inflight') > Len(inflight)) =>
            \E message \in CaptureMessages : ClientCaptureMessage(message)]_vars
    /\ [][Destroy =>
            UNCHANGED <<eventQueue, inflight, isFlushing, isSendingLogs,
                        retryCount, postCount, lastBeacon>>]_vars
    /\ [](destroyed =>
            \A i \in DOMAIN inflight :
                inflight[i].pc = "fetching" => ENABLED FetchSuccess(i))

\* after destroy(): an event waits in the queue beside a send in flight
C31_Witness ==
    /\ destroyed
    /\ eventQueue # <<>>
    /\ inflight # <<>>

\* the event is in the batch of a POST that carries the x-api-key header
PostedWithKey(id) ==
    \E i \in DOMAIN inflight :
        /\ id \in Ids(inflight[i].batch)
        /\ inflight[i].key = "header"

\* C32: with no explicit flush call, when the interval fires on a queue that
\* is not empty and no flush is in flight, the queued events become the batch
\* of a new POST with the x-api-key header; and while the interval is set an
\* event waiting in the queue with no flush in flight does reach such a POST
\* (one firing of the interval is one TimerFlush step).
C32_TimerHandsTheQueueToAPost ==
    /\ [][(TimerFlush /\ ~isFlushing /\ eventQueue # <<>>) =>
            /\ inflight' = Append(inflight,
                                  [batch |-> eventQueue,
                                   body |-> WireBody(eventQueue),
                                   key |-> "header", pc |-> "fetching",
                                   attempts |-> 1])
            /\ eventQueue' = <<>>
            /\ isFlushing']_vars
    /\ \A id \in 1..MaxEvents :
          (id \in Ids(eventQueue) /\ ~isFlushing /\ ~destroyed)
             ~> (PostedWithKey(id) \/ destroyed)

\* below the batch threshold, the timer posted the two queued events
C32_Witness ==
    /\ maxBatchSize = 3
    /\ ~destroyed
    /\ postCount = 1
    /\ Len(inflight) = 1
    /\ inflight[1].key = "header"
    /\ Len(inflight[1].batch) = 2
    /\ eventQueue = <<>>

\* the queue of this step, or the batch the batch-size trigger flushed
QueuedOrFlushed ==
    IF eventQueue' # <<>> \/ Len(inflight') <= Len(inflight) THEN eventQueue'
    ELSE LastSend(inflight').batch

\* C33: a captureEvent call that returns an id appended exactly one event,
\* the one with that id, to the send queue, which the batch-size trigger may
\* have flushed whole within the call; a call that returns null (recursion
\* guard, debug marker, beforeSend discard, sampling) or that a throwing hook
\* ended left the queue and the pending batches as they were.
C33_IdReturnedIffQueued ==
    [][~(IF ret'.id # NullId
         THEN /\ Len(QueuedOrFlushed) = Len(eventQueue) + 1
              /\ IsPrefix(eventQueue, QueuedOrFlushed)
              /\ QueuedOrFlushed[Len(QueuedOrFlushed)].id = ret'.id
              /\ BatchTotal(inflight') + Len(eventQueue')
                     = BatchTotal(inflight) + Len(eventQueue) + 1
         ELSE /\ eventQueue' = eventQueue
              /\ inflight' = inflight
              /\ ret'.why \in {"sending", "marker", "hook", "sampled", "threw"})
       => \A partial \in Partials : ~CaptureEventCall(partial)]_vars

\* a capture that the sampling draw discarded, with an event waiting
C33_Witness ==
    /\ ret.why = "sampled"
    /\ ret.id = NullId
    /\ eventQueue # <<>>

\* the retryAttempts value of the client configuration, 3 when none is given
ConfiguredRetries ==
    IF retryAttempts = <<>> THEN 3 ELSE retryAttempts[1]

\* C34 as stated: a batch whose every attempt failed, all of them counted from
\* zero, was rejected after one first attempt and as many retries as the
\* client configuration asks for.
C34_Original ==
    [][\A i \in Sends :
         (TerminalFailure(i) /\ inflight[i].attempts = retryCount')
            => inflight[i].attempts = ConfiguredRetries + 1]_vars

\* the entries transformJsonForServer does not leave out: the value is not
\* undefined, and a string-valued level has a sibling id
KeptEntries(entries) ==
    SelectSeq(entries,
              LAMBDA e : /\ e[2].t # "undefined"
                         /\ ~(e[1] = "level" /\ e[2].t = "string"
                                /\ ~HasKey(entries, "id")))

\* the kept entry an output key stands for: the last one that maps to it
LastFor(kept, key) ==
    kept[CHOOSE j \in DOMAIN kept :
            /\ WireKey(kept[j][1]) = key
            /\ \A l \in DOMAIN kept : WireKey(kept[l][1]) = key => l <= j]

RECURSIVE AsStated(_, _)
\* the output has one entry for each kept entry of the input, in its order,
\* under the same key or user_data for user, with the same value transformed
AsStated(in, out) ==
    IF in.t = "array"
    THEN /\ out.t = "array"
         /\ Len(out.v) = Len(in.v)
         /\ \A j \in DOMAIN in.v : AsStated(in.v[j], out.v[j])
    ELSE IF in.t = "object"
    THEN LET kept == KeptEntries(in.v)
         IN  /\ out.t = "object"
             /\ Len(out.v) = Len(kept)
             /\ \A j \in DOMAIN kept :
                   /\ out.v[j][1] = WireKey(kept[j][1])
                   /\ AsStated(kept[j][2], out.v[j][2])
    ELSE out = in

RECURSIVE AsBuilt(_, _)
\* as AsStated, but an object that has both user and user_data yields one
\* user_data entry, which holds the value of the later of the two
AsBuilt(in, out) ==
    IF in.t = "array"
    THEN /\ out.t = "array"
         /\ Len(out.v) = Len(in.v)
         /\ \A j \in DOMAIN in.v : AsBuilt(in.v[j], out.v[j])
    ELSE IF in.t = "object"
    THEN LET kept == KeptEntries(in.v)
             keys == {WireKey(kept[j][1]) : j \in DOMAIN kept}
         IN  /\ out.t = "object"
             /\ Len(out.v) = Cardinality(keys)
             /\ {out.v[j][1] : j \in DOMAIN out.v} = keys
             /\ \A j \in DOMAIN out.v :
                   AsBuilt(LastFor(kept, out.v[j][1])[2], out.v[j][2])
             /\ \A j, l \in DOMAIN kept :
                   (j < l /\ WireKey(kept[j][1]) # WireKey(kept[l][1])
                      /\ ~\E x \in 1..(j - 1) :
                            WireKey(kept[x][1]) = WireKey(kept[l][1]))
                   => \E a, b \in DOMAIN out.v :
                         /\ a < b
                         /\ out.v[a][1] = WireKey(kept[j][1])
                         /\ out.v[b][1] = WireKey(kept[l][1])
    ELSE out = in

\* C35 as stated: the result keeps a string-valued level only beside an id,
\* renames every user key to user_data, leaves out the keys whose value is
\* undefined, and has every other key and value of the input unchanged.
C35_Original == wire # NoJson => AsStated(doc, wire)

\* C35, amended: the same, except that an object holding both a user and a
\* user_data key comes out with a single user_data key, whose value is that
\* of whichever of the two comes later in the object.
C35_TransformKeepsAllButLevelAndUser == wire # NoJson => AsBuilt(doc, wire)

\* an event-like object whose nested user object lost its level
C35_Witness ==
    /\ doc = Json("object",
                  <<<<"id", Json("string", "s")>>,
                    <<"user", Json("object",
                                   <<<<"level", Json("string", "s")>>,
                                     <<"user_data", Json("null", "")>>>>)>>>>)
    /\ wire = Json("object",
                   <<<<"id", Json("string", "s")>>,
                     <<"user_data", Json("object",
                                         <<<<"user_data", Json("null", "")>>>>)>>>>)

C37_Original ==
    /\ \A j \in DOMAIN dbOps : dbOps[j].op = "store" => dbOps[j].id # NullId
    /\ NullId \notin DOMAIN store

\* how many events of a sequence carry the id
Copies(events, id) == Cardinality({j \in DOMAIN events : events[j].id = id})

RECURSIVE CopiesInFlight(_, _)
CopiesInFlight(frames, id) ==
    IF frames = <<>> THEN 0
    ELSE Copies(Head(frames).batch, id) + CopiesInFlight(Tail(frames), id)

\* C38 as stated: the send queue and the batches in flight together hold at
\* most one event with the id of an event that was captured, before and
\* after the reconnect replay.
C38_Original ==
    \A id \in 1..MaxEvents :
        Copies(eventQueue, id) + CopiesInFlight(inflight, id) <= 1

\* C39 as stated: clearStoredEvents at the end of the replay removes only
\* records that the replay retrieved and re-submitted. Checked where every
\* re-submitted record is still in the send queue (no hook, no send started):
\* a record that is not there came into the store after retrieveEvents
\* resolved, and is still in the store when the clear has run.
C39_Original ==
    [][(DbClear /\ beforeSend = "none" /\ inflight = <<>>) =>
         \A id \in DOMAIN store :
            id \notin Ids(eventQueue) => id \in DOMAIN store']_vars

\* C40 as stated: whatever replay sends do meanwhile, the k-th failed attempt
\* of a log batch is followed by a backoff of 2^k seconds (retryCount is k
\* when the delay is computed), and a log batch is attempted at most
\* maxRetryAttempts + 1 times.
C40_Original ==
    /\ [][\A i \in DOMAIN inflight :
            (/\ inflight[i].pc = "fetching"
             /\ i \in DOMAIN inflight'
             /\ inflight'[i].pc = "backoff")
            => retryCount' = inflight[i].attempts]_vars
    /\ [](\A i \in DOMAIN inflight :
            inflight[i].attempts <= maxRetryAttempts + 1)

====
